---- MODULE Spec2Model ----
(***************************************************************************)
(* Model of the baking-box application (App.tsx): the scaling view, the    *)
(* mold volume converter and the ingredient section display.               *)
(*                                                                         *)
(* JavaScript numbers are modelled as exact rationals [n, d] with d > 0;   *)
(* NaN is the record with d = 0.  JavaScript strings are sequences of      *)
(* one-character strings, so that parseFloat, toFixed and replace are      *)
(* computed character by character.                                        *)
(***************************************************************************)
EXTENDS Integers, Sequences, FiniteSets, TLC

----------------------------------------------------------------------------
(* Bounds of the model *)

MaxLen == 2          \* longest ingredient list drawn for one section
MaxQty == 4          \* largest stored recipe quantity drawn
MaxDim == 1          \* largest mold dimension typed
MaxScale == 2        \* unit changes are the ratios a / b of 1 .. MaxScale
MaxClock == 2        \* Date.now() runs from 1 to MaxClock
MaxCats == 1         \* categories found in storage by the recipe box
MaxRequests == 2     \* image requests started

----------------------------------------------------------------------------
(* Numbers *)

Abs(x) == IF x < 0 THEN -x ELSE x

RECURSIVE Gcd(_, _)
Gcd(a, b) == IF b = 0 THEN a ELSE Gcd(b, a % b)

NaN == [n |-> 0, d |-> 0]

Rat(a, b) ==
  IF b = 0 THEN NaN
  ELSE LET g == Gcd(Abs(a), Abs(b))
           s == IF b < 0 THEN -1 ELSE 1
       IN  [n |-> s * (a \div g), d |-> s * (b \div g)]

Int2Rat(k) == [n |-> k, d |-> 1]
Zero == Int2Rat(0)
One == Int2Rat(1)

IsNaN(x) == x.d = 0

RMul(x, y) == IF IsNaN(x) \/ IsNaN(y) THEN NaN ELSE Rat(x.n * y.n, x.d * y.d)
RAdd(x, y) == IF IsNaN(x) \/ IsNaN(y) THEN NaN ELSE Rat(x.n * y.d + y.n * x.d, x.d * y.d)
RNeg(x) == [n |-> -x.n, d |-> x.d]
RSub(x, y) == RAdd(x, RNeg(y))
\* x / y; the callers guard y = 0, where JavaScript gives Infinity or NaN
RDiv(x, y) == IF IsNaN(x) \/ IsNaN(y) \/ y.n = 0 THEN NaN ELSE Rat(x.n * y.d, x.d * y.n)

\* comparisons with NaN are false, as in JavaScript
RLt(x, y) == ~IsNaN(x) /\ ~IsNaN(y) /\ x.n * y.d < y.n * x.d
RLe(x, y) == ~IsNaN(x) /\ ~IsNaN(y) /\ x.n * y.d <= y.n * x.d
RGt(x, y) == RLt(y, x)
RMax(x, y) == IF RLt(x, y) THEN y ELSE x
RAbs(x) == [n |-> Abs(x.n), d |-> x.d]

\* JavaScript truthiness of a number: 0 and NaN are falsy
Truthy(x) == ~IsNaN(x) /\ x.n # 0
\* x || y on numbers
OrElse(x, y) == IF Truthy(x) THEN x ELSE y

\* Math.PI, as the rational 355/113
PI == Rat(355, 113)

RECURSIVE Pow10(_)
Pow10(k) == IF k = 0 THEN 1 ELSE 10 * Pow10(k - 1)

----------------------------------------------------------------------------
(* Strings *)

Digits == <<"0", "1", "2", "3", "4", "5", "6", "7", "8", "9">>
IsDigit(c) == \E i \in 1..10 : Digits[i] = c
DigitVal(c) == (CHOOSE i \in 1..10 : Digits[i] = c) - 1

\* number of leading digit characters of s from position i on
RECURSIVE DigitRun(_, _)
DigitRun(s, i) ==
  IF i <= Len(s) /\ IsDigit(s[i]) THEN 1 + DigitRun(s, i + 1) ELSE 0

\* value of the digit characters s[i .. i+k-1]
RECURSIVE DigitsVal(_, _, _)
DigitsVal(s, i, k) ==
  IF k = 0 THEN 0 ELSE 10 * DigitsVal(s, i, k - 1) + DigitVal(s[i + k - 1])

\* parseFloat: optional sign, digits, optional fraction; the longest such
\* prefix is converted and the rest ignored; NaN when there is no digit
ParseFloat(s) ==
  LET signed == Len(s) >= 1 /\ s[1] \in {"-", "+"}
      sgn == IF signed /\ s[1] = "-" THEN -1 ELSE 1
      i == IF signed THEN 2 ELSE 1
      ni == DigitRun(s, i)
      dot == i + ni <= Len(s) /\ s[i + ni] = "."
      nf == IF dot THEN DigitRun(s, i + ni + 1) ELSE 0
  IN  IF ni = 0 /\ nf = 0 THEN NaN
      ELSE Rat(sgn * (DigitsVal(s, i, ni) * Pow10(nf) + DigitsVal(s, i + ni + 1, nf)),
               Pow10(nf))

\* decimal digits of a natural number
RECURSIVE NatToStr(_)
NatToStr(k) ==
  IF k < 10 THEN <<Digits[k + 1]>> ELSE NatToStr(k \div 10) \o <<Digits[(k % 10) + 1]>>

\* k zero-padded to exactly w digits
RECURSIVE PadDigits(_, _)
PadDigits(k, w) ==
  IF w = 0 THEN <<>> ELSE PadDigits(k \div 10, w - 1) \o <<Digits[(k % 10) + 1]>>

\* Number.prototype.toFixed(f): the sign, then the integer n nearest to
\* |x| * 10^f (the larger one on a tie) written with f decimals
ToFixed(x, f) ==
  LET m == RAbs(x)
      n == (2 * m.n * Pow10(f) + m.d) \div (2 * m.d)
      body == NatToStr(n \div Pow10(f)) \o
              (IF f = 0 THEN <<>> ELSE <<".">> \o PadDigits(n % Pow10(f), f))
  IN  IF IsNaN(x) THEN <<"N", "a", "N">>
      ELSE IF x.n < 0 THEN <<"-">> \o body ELSE body

\* s.replace(/\.0$/, '')
StripDotZero(s) ==
  IF Len(s) >= 2 /\ s[Len(s) - 1] = "." /\ s[Len(s)] = "0"
  THEN SubSeq(s, 1, Len(s) - 2) ELSE s

----------------------------------------------------------------------------
(* JavaScript values of Ingredient.amount: a number or a string *)

Num(r) == [t |-> "number", num |-> r, str |-> <<>>]
Str(s) == [t |-> "string", num |-> NaN, str |-> s]
NumI(k) == Num(Int2Rat(k))

\* the two sentinel amounts, written by code point: "適量" and "少許"
TO_TASTE == <<"U+9069", "U+91CF">>
A_PINCH == <<"U+5C11", "U+8A31">>

\* the labels '總粉量' and '主食材' of localBase
TOTAL_FLOUR == "U+7E3D U+7C89 U+91CF"
MAIN_INGREDIENT == "U+4E3B U+98DF U+6750"

Ingredient(name, amount, isFlour) ==
  [name |-> name, amount |-> amount, unit |-> "g", isFlour |-> isFlour]

----------------------------------------------------------------------------
(* DisplayIngredientSection *)

\* line 70: the amount as localBase reads it
BaseAmt(ing) ==
  IF ing.amount.t = "number" THEN ing.amount.num
  ELSE OrElse(ParseFloat(ing.amount.str), Zero)

\* lines 65-76: the forEach loop over the first k ingredients
RECURSIVE BaseLoop(_, _)
BaseLoop(ingredients, k) ==
  IF k = 0 THEN [flourTotal |-> Zero, maxWeight |-> Zero, maxName |-> ""]
  ELSE LET acc == BaseLoop(ingredients, k - 1)
           ing == ingredients[k]
           amt == BaseAmt(ing)
           heavier == RGt(amt, acc.maxWeight)
       IN  [flourTotal |-> IF ing.isFlour THEN RAdd(acc.flourTotal, amt) ELSE acc.flourTotal,
            maxWeight |-> IF heavier THEN amt ELSE acc.maxWeight,
            maxName |-> IF heavier THEN ing.name ELSE acc.maxName]

\* the heaviest ingredient taken as the base even when flour is flagged
localBaseHeaviestOnly(ingredients) ==
  LET acc == BaseLoop(ingredients, Len(ingredients))
  IN  [weight |-> OrElse(acc.maxWeight, One),
       name |-> IF acc.maxName # "" THEN acc.maxName ELSE MAIN_INGREDIENT]

\* the base without its default of 1
localBaseNoDefault(ingredients) ==
  LET acc == BaseLoop(ingredients, Len(ingredients))
  IN  IF RGt(acc.flourTotal, Zero)
      THEN [weight |-> acc.flourTotal, name |-> TOTAL_FLOUR]
      ELSE [weight |-> acc.maxWeight,
            name |-> IF acc.maxName # "" THEN acc.maxName ELSE MAIN_INGREDIENT]

localBase(ingredients) ==
  LET acc == BaseLoop(ingredients, Len(ingredients))
  IN  IF RGt(acc.flourTotal, Zero)
      THEN [weight |-> acc.flourTotal, name |-> TOTAL_FLOUR]
      ELSE [weight |-> OrElse(acc.maxWeight, One),
            name |-> IF acc.maxName # "" THEN acc.maxName ELSE MAIN_INGREDIENT]

\* lines 96-102
numericAmt(ing) ==
  IF ing.amount.t = "number" THEN ing.amount.num
  ELSE LET parsed == ParseFloat(ing.amount.str)
       IN  IF IsNaN(parsed) THEN Zero ELSE parsed

\* line 103
hasValidAmt(ing) == RGt(numericAmt(ing), Zero)

\* the rounded text kept as toFixed gives it
scaledAmountKeepsDotZero(ing, scalingFactor) ==
  IF hasValidAmt(ing)
  THEN Str(ToFixed(RMul(numericAmt(ing), scalingFactor), 1))
  ELSE ing.amount

\* line 104
scaledAmount(ing, scalingFactor) ==
  IF hasValidAmt(ing)
  THEN Str(StripDotZero(ToFixed(RMul(numericAmt(ing), scalingFactor), 1)))
  ELSE ing.amount

\* only the first sentinel recognised
shouldHideUnitToTasteOnly(ing) ==
  ing.amount.t = "string" /\ ing.amount.str = TO_TASTE

\* line 105
shouldHideUnit(ing) ==
  ing.amount.t = "string" /\ (ing.amount.str = TO_TASTE \/ ing.amount.str = A_PINCH)

\* a percentage for every row, valid amount or not
percentTextOfAnyAmount(ing, base, isBaking, showPercentage) ==
  IF isBaking /\ showPercentage /\ RGt(base.weight, Zero)
  THEN ToFixed(RMul(RDiv(numericAmt(ing), base.weight), Int2Rat(100)), 1) \o <<"%">>
  ELSE <<>>

\* lines 117-125: the percentage text of one row, <<>> when none is shown
percentText(ing, base, isBaking, showPercentage) ==
  IF isBaking /\ showPercentage /\ RGt(base.weight, Zero)
  THEN IF hasValidAmt(ing)
       THEN ToFixed(RMul(RDiv(numericAmt(ing), base.weight), Int2Rat(100)), 1) \o <<"%">>
       ELSE <<>>
  ELSE <<>>

\* the section with each percentage taken from the scaled amount
DisplayIngredientSectionScaledPercent(ingredients, isBaking, showPercentage, scalingFactor) ==
  IF Len(ingredients) = 0
  THEN [rendered |-> FALSE, baseLabel |-> "", items |-> <<>>]
  ELSE LET base == localBase(ingredients)
       IN  [rendered |-> TRUE,
            baseLabel |-> IF isBaking /\ showPercentage THEN base.name ELSE "",
            items |-> [i \in 1..Len(ingredients) |->
                        [name |-> ingredients[i].name,
                         amount |-> scaledAmount(ingredients[i], scalingFactor),
                         unit |-> IF shouldHideUnit(ingredients[i]) THEN ""
                                  ELSE ingredients[i].unit,
                         percent |->
                           IF isBaking /\ showPercentage /\ hasValidAmt(ingredients[i])
                           THEN ToFixed(RMul(RDiv(RMul(numericAmt(ingredients[i]), scalingFactor),
                                                  base.weight), Int2Rat(100)), 1) \o <<"%">>
                           ELSE <<>>]]]

\* the rendered section: nothing for an empty list, else the header's base
\* label ("" when hidden) and one row per ingredient
DisplayIngredientSection(ingredients, isBaking, showPercentage, scalingFactor) ==
  IF Len(ingredients) = 0
  THEN [rendered |-> FALSE, baseLabel |-> "", items |-> <<>>]
  ELSE LET base == localBase(ingredients)
       IN  [rendered |-> TRUE,
            baseLabel |-> IF isBaking /\ showPercentage THEN base.name ELSE "",
            items |-> [i \in 1..Len(ingredients) |->
                        [name |-> ingredients[i].name,
                         amount |-> scaledAmount(ingredients[i], scalingFactor),
                         unit |-> IF shouldHideUnit(ingredients[i]) THEN ""
                                  ELSE ingredients[i].unit,
                         percent |-> percentText(ingredients[i], base, isBaking, showPercentage)]]]

\* String(number), as React writes a number child; decimals of up to six places
NumberToString(x) ==
  IF IsNaN(x) THEN <<"N", "a", "N">>
  ELSE LET k == CHOOSE k \in 0..6 :
                  /\ (x.n * Pow10(k)) % x.d = 0
                  /\ \A j \in 0..(k - 1) : (x.n * Pow10(j)) % x.d # 0
       IN  ToFixed(x, k)

\* line 115: the text of {scaledAmount}
DisplayText(v) == IF v.t = "string" THEN v.str ELSE NumberToString(v.num)

----------------------------------------------------------------------------
(* Application state (App) *)

VARIABLES
  recipes,          \* useState<Recipe[]>, read from localStorage
  scalingRecipeId,  \* id chosen in the scaling view, "" when none
  targetQuantity,   \* target yield of the scaling view
  sourceMold,       \* mold of the recipe
  targetMold,       \* mold to convert to
  props,            \* props of one DisplayIngredientSection instance
  rendered,         \* what that instance rendered
  view,             \* the AppView shown
  selectedRecipe,   \* the recipe of the detail view, or NoRecipe
  formRecipe,       \* the recipe being created or edited
  searchQuery,      \* text of the search box
  activeCategory,   \* the category filter
  categories,       \* useState<Category[]>
  knowledge,        \* useState<Knowledge[]>
  resources,        \* useState<Resource[]>
  storage,          \* localStorage: the text stored under each of the four keys
  now,              \* Date.now()
  reader,           \* the backup file a FileReader is reading, or NoFile
  alerted,          \* the text of the alert the import showed last, or NoAlert
  exported,         \* the backup downloaded last with the collections it was
                    \* written from, or NoExport
  prompt,           \* AIImageTools: text of the prompt box
  isGenerating,     \* AIImageTools: the flag set while a request is pending
  error,            \* AIImageTools: the message shown, or NoError
  mode,             \* AIImageTools: "generate" or "edit"
  currentImageUrl,  \* AIImageTools: the image passed by the parent, or NoImage
  requests          \* every call of handleGenerate or handleEdit that got past
                    \* its first line, with the await it stands at

appVars == <<recipes, scalingRecipeId, targetQuantity, sourceMold, targetMold>>
sectionVars == <<props, rendered>>
scalingVars == <<scalingRecipeId, targetQuantity, sourceMold, targetMold>>
crudVars == <<view, selectedRecipe, formRecipe, searchQuery, activeCategory,
              categories, knowledge, resources, storage, now, reader, alerted, exported>>
imageVars == <<prompt, isGenerating, error, mode, currentImageUrl, requests>>
vars == <<recipes, scalingRecipeId, targetQuantity, sourceMold, targetMold, props, rendered,
          view, selectedRecipe, formRecipe, searchQuery, activeCategory,
          categories, knowledge, resources, storage, now, reader, alerted, exported,
          prompt, isGenerating, error, mode, currentImageUrl, requests>>

DEFAULT_SECTIONS_ORDER ==
  <<"liquidStarterIngredients", "ingredients", "fillingIngredients",
    "decorationIngredients", "customSectionIngredients">>

MOLD_PRESETS ==
  << [name |-> "custom", type |-> "none", diameter |-> Zero, height |-> Zero,
      length |-> Zero, width |-> Zero],
     [name |-> "D10 H6", type |-> "circular", diameter |-> Int2Rat(10),
      height |-> Int2Rat(6), length |-> Zero, width |-> Zero],
     [name |-> "D15 H7.5", type |-> "circular", diameter |-> Int2Rat(15),
      height |-> Rat(15, 2), length |-> Zero, width |-> Zero],
     [name |-> "D20 H8", type |-> "circular", diameter |-> Int2Rat(20),
      height |-> Int2Rat(8), length |-> Zero, width |-> Zero],
     [name |-> "20x10x10", type |-> "rectangular", diameter |-> Zero,
      height |-> Int2Rat(10), length |-> Int2Rat(20), width |-> Int2Rat(10)],
     [name |-> "32x10x10", type |-> "rectangular", diameter |-> Zero,
      height |-> Int2Rat(10), length |-> Int2Rat(32), width |-> Int2Rat(10)],
     [name |-> "42x33x2", type |-> "rectangular", diameter |-> Zero,
      height |-> Int2Rat(2), length |-> Int2Rat(42), width |-> Int2Rat(33)] >>

\* lines 198-199: the initial value of sourceMold and of targetMold
InitialMold ==
  [type |-> "circular", diameter |-> Zero, height |-> Zero, length |-> Zero, width |-> Zero]

\* line 235: recipes.find(r => r.id === scalingRecipeId)
HasScalingRecipe == \E i \in 1..Len(recipes) : recipes[i].id = scalingRecipeId
scalingRecipe ==
  recipes[CHOOSE i \in 1..Len(recipes) :
            /\ recipes[i].id = scalingRecipeId
            /\ \A j \in 1..(i - 1) : recipes[j].id # scalingRecipeId]

\* lines 236-239
scalingFactor ==
  IF ~HasScalingRecipe \/ ~Truthy(scalingRecipe.quantity) THEN One
  ELSE RDiv(targetQuantity, scalingRecipe.quantity)

\* the volume with the height as entered
getVolumeRawHeight(mold) ==
  IF mold.type = "circular"
  THEN RMul(RMul(PI, RMul(RDiv(mold.diameter, Int2Rat(2)), RDiv(mold.diameter, Int2Rat(2)))),
            mold.height)
  ELSE RMul(RMul(mold.length, mold.width), mold.height)

\* lines 242-247
getVolume(mold) ==
  IF mold.type = "circular"
  THEN RMul(RMul(PI, RMul(RDiv(mold.diameter, Int2Rat(2)), RDiv(mold.diameter, Int2Rat(2)))),
            OrElse(mold.height, One))
  ELSE RMul(RMul(mold.length, mold.width), OrElse(mold.height, One))

\* the factor guarded on the source volume alone
calculatedMoldFactorSourceOnly ==
  LET vSource == getVolume(sourceMold)
      vTarget == getVolume(targetMold)
  IN  IF RLe(vSource, Zero) THEN One
      ELSE RDiv(vTarget, vSource)

\* lines 250-255
calculatedMoldFactor ==
  LET vSource == getVolume(sourceMold)
      vTarget == getVolume(targetMold)
  IN  IF RLe(vSource, Zero) \/ RLe(vTarget, Zero) THEN One
      ELSE RDiv(vTarget, vSource)

\* the factor guarded against volumes below one
calculatedMoldFactorOfUnitGuard(source, target) ==
  LET vSource == getVolume(source)
      vTarget == getVolume(target)
  IN  IF RLt(vSource, One) \/ RLt(vTarget, One) THEN One
      ELSE RDiv(vTarget, vSource)

\* lines 250-255, the memo recomputed for a pair of molds: what
\* calculatedMoldFactor is once sourceMold and targetMold hold these values
calculatedMoldFactorOf(source, target) ==
  LET vSource == getVolume(source)
      vTarget == getVolume(target)
  IN  IF RLe(vSource, Zero) \/ RLe(vTarget, Zero) THEN One
      ELSE RDiv(vTarget, vSource)

\* every section scaled alike
SectionFactorAll(secKey) == scalingFactor

\* lines 588-595: the factor handed to the section of key secKey
SectionFactor(secKey) ==
  IF secKey \in {"ingredients", "liquidStarterIngredients"} THEN scalingFactor ELSE One

\* lines 588-595: showPercentage of the section of key secKey
SectionShowPercentage(secKey) == secKey \in {"ingredients", "liquidStarterIngredients"}

\* lines 589-593: the ingredient list the section of key secKey shows
SectionIngredients(r, secKey) ==
  CASE secKey = "ingredients" -> r.ingredients
    [] secKey = "liquidStarterIngredients" -> r.liquidStarterIngredients
    [] secKey = "fillingIngredients" -> r.fillingIngredients
    [] secKey = "decorationIngredients" -> r.decorationIngredients
    [] secKey = "customSectionIngredients" -> r.customSectionIngredients
    [] OTHER -> <<>>

\* lines 585-597: the scaling result list, one entry per key of sectionsOrder
ScalingResultList ==
  IF ~HasScalingRecipe THEN <<>>
  ELSE LET r == scalingRecipe
       IN  [i \in 1..Len(r.sectionsOrder) |->
             LET secKey == r.sectionsOrder[i]
             IN  [key |-> secKey,
                  section |-> DisplayIngredientSection(SectionIngredients(r, secKey),
                                                       r.isBakingRecipe,
                                                       SectionShowPercentage(secKey),
                                                       SectionFactor(secKey))]]

----------------------------------------------------------------------------
(* Operations of the scaling view *)

\* the recipe selected without the target quantity being reset
SelectScalingRecipeKeepsTarget(value) ==
  /\ scalingRecipeId' = value
  /\ UNCHANGED <<recipes, targetQuantity, sourceMold, targetMold, sectionVars, crudVars, imageVars>>

\* lines 499-505: the recipe select of the scaling view
SelectScalingRecipe(value) ==
  /\ scalingRecipeId' = value
  /\ targetQuantity' =
       IF \E i \in 1..Len(recipes) : recipes[i].id = value
       THEN LET r == recipes[CHOOSE i \in 1..Len(recipes) :
                               /\ recipes[i].id = value
                               /\ \A j \in 1..(i - 1) : recipes[j].id # value]
            IN  OrElse(r.quantity, One)
       ELSE targetQuantity
  /\ UNCHANGED <<recipes, sourceMold, targetMold, sectionVars, crudVars, imageVars>>

\* line 524: the target quantity input, shown when a recipe is selected
SetTargetQuantity(value) ==
  /\ HasScalingRecipe
  /\ targetQuantity' = RMax(Rat(1, 10), OrElse(ParseFloat(value), One))
  /\ UNCHANGED <<recipes, scalingRecipeId, sourceMold, targetMold, sectionVars, crudVars, imageVars>>

\* lines 263-273
handleApplyMoldPreset(mold, presetName) ==
  /\ HasScalingRecipe
  /\ \E i \in 1..Len(MOLD_PRESETS) :
       /\ MOLD_PRESETS[i].name = presetName
       /\ LET preset == MOLD_PRESETS[i]
              value == [type |-> preset.type,
                        diameter |-> OrElse(preset.diameter, Zero),
                        height |-> OrElse(preset.height, Zero),
                        length |-> OrElse(preset.length, Zero),
                        width |-> OrElse(preset.width, Zero)]
          IN  IF preset.type = "none"
              THEN UNCHANGED <<sourceMold, targetMold>>
              ELSE IF mold = "source"
                   THEN sourceMold' = value /\ UNCHANGED targetMold
                   ELSE targetMold' = value /\ UNCHANGED sourceMold
  /\ UNCHANGED <<recipes, scalingRecipeId, targetQuantity, sectionVars, crudVars, imageVars>>

\* lines 539-540, 562-563: the circular / rectangular buttons
SetMoldType(mold, type) ==
  /\ HasScalingRecipe
  /\ IF mold = "source"
     THEN sourceMold' = [sourceMold EXCEPT !.type = type] /\ UNCHANGED targetMold
     ELSE targetMold' = [targetMold EXCEPT !.type = type] /\ UNCHANGED sourceMold
  /\ UNCHANGED <<recipes, scalingRecipeId, targetQuantity, sectionVars, crudVars, imageVars>>

\* lines 545-552, 568-575: a dimension input; the diameter input exists for a
\* circular mold, the length and width inputs for a rectangular one
SetMoldField(mold, field, value) ==
  LET m == IF mold = "source" THEN sourceMold ELSE targetMold
      v == OrElse(ParseFloat(value), Zero)
  IN  /\ HasScalingRecipe
      /\ field = "diameter" => m.type = "circular"
      /\ field \in {"length", "width"} => m.type = "rectangular"
      /\ IF mold = "source"
         THEN sourceMold' = [sourceMold EXCEPT ![field] = v] /\ UNCHANGED targetMold
         ELSE targetMold' = [targetMold EXCEPT ![field] = v] /\ UNCHANGED sourceMold
      /\ UNCHANGED <<recipes, scalingRecipeId, targetQuantity, sectionVars, crudVars, imageVars>>

\* the new target stored without rounding
applyMoldFactorUnrounded ==
  /\ HasScalingRecipe
  /\ LET newTarget == RMul(OrElse(scalingRecipe.quantity, One), calculatedMoldFactor)
     IN  targetQuantity' = newTarget
  /\ UNCHANGED <<recipes, scalingRecipeId, sourceMold, targetMold, sectionVars, crudVars, imageVars>>

\* lines 257-261
applyMoldFactor ==
  /\ HasScalingRecipe
  /\ LET newTarget == RMul(OrElse(scalingRecipe.quantity, One), calculatedMoldFactor)
     IN  targetQuantity' = ParseFloat(ToFixed(newTarget, 2))
  /\ UNCHANGED <<recipes, scalingRecipeId, sourceMold, targetMold, sectionVars, crudVars, imageVars>>

\* a re-render of the section instance with another scalingFactor prop
Rerender(factor) ==
  /\ props' = [props EXCEPT !.scalingFactor = factor]
  /\ rendered' = DisplayIngredientSection(props.ingredients, props.isBaking,
                                          props.showPercentage, factor)
  /\ UNCHANGED <<appVars, crudVars, imageVars>>

----------------------------------------------------------------------------
(* The recipe box (App): collections, forms and localStorage.               *)
(* A recipe is modelled by its id, title, category, quantity, sectionsOrder *)
(* and executionLogs; the fields every handler copies verbatim are left     *)
(* out.  Titles and the search text are sequences of characters.            *)

\* '全部', line 192
ALL == "U+5168U+90E8"
\* '麵包', line 20
BREAD == "U+9EB5U+5305"

\* lines 19-28
DEFAULT_CATEGORIES ==
  << [id |-> "cat-1", name |-> BREAD, order |-> 0],
     [id |-> "cat-2", name |-> "U+86CBU+7CD5", order |-> 1],
     [id |-> "cat-3", name |-> "U+5E03U+4E01", order |-> 2],
     [id |-> "cat-4", name |-> "U+9905U+4E7E", order |-> 3],
     [id |-> "cat-5", name |-> "U+6D3EU+5854", order |-> 4],
     [id |-> "cat-6", name |-> "U+4E2DU+5F0FU+9EDEU+5FC3", order |-> 5],
     [id |-> "cat-7", name |-> "U+679CU+51CD", order |-> 6],
     [id |-> "cat-8", name |-> "U+7CD6U+679C", order |-> 7] >>

\* lines 30-38
DEFAULT_KNOWLEDGE == << [id |-> "kn-default", title |-> <<"t">>] >>

\* the id of a recipe that has none (undefined)
NoId == "undefined"
\* selectedRecipe === null
NoRecipe == [id |-> "null"]

\* the modelled fields of a Recipe, lines 1017-1053
AppRecipe(id, title, category, quantity, order, logs) ==
  [id |-> id, title |-> title, category |-> category, quantity |-> quantity,
   sectionsOrder |-> order, executionLogs |-> logs]

\* lines 211-218: the form before any recipe is created or edited
InitialForm == AppRecipe(NoId, <<>>, BREAD, One, DEFAULT_SECTIONS_ORDER, <<>>)

\* 'rec-' + Date.now(), 'log-' + Date.now(), 'cat-' + Date.now(), 'kn-' + Date.now()
TimeId(prefix, t) == prefix \o ToString(t)

\* s.includes(q)
Includes(s, q) == \E i \in 1..(Len(s) - Len(q) + 1) : SubSeq(s, i, i + Len(q) - 1) = q

\* lines 227-233, without the sort by creation time: the indices of the
\* recipes the list view shows (a recipe of the model has no master)
filteredRecipes ==
  { i \in 1..Len(recipes) :
      /\ Includes(recipes[i].title, searchQuery)
      /\ activeCategory = ALL \/ recipes[i].category = activeCategory }

\* JSON.stringify and JSON.parse of a number: NaN and a missing property
\* (both read back as a missing quantity) leave no numeral
JsonNumber(x) == IF IsNaN(x) THEN <<>> ELSE NumberToString(x)
ParseJsonNumber(s) == IF s = <<>> THEN NaN ELSE ParseFloat(s)
JsonInt(k) == IF k < 0 THEN <<"-">> \o NatToStr(-k) ELSE NatToStr(k)
ParseJsonInt(s) == ParseFloat(s).n

JsonRecipe(r) == [r EXCEPT !.quantity = JsonNumber(r.quantity)]
ParseJsonRecipe(j) == [j EXCEPT !.quantity = ParseJsonNumber(j.quantity)]
JsonCategory(c) == [c EXCEPT !.order = JsonInt(c.order)]
ParseJsonCategory(j) == [j EXCEPT !.order = ParseJsonInt(j.order)]

\* the knowledge key never written after the first load
StoredWithoutKnowledge(rs, cs, ks, res) ==
  [recipes |-> [i \in 1..Len(rs) |-> JsonRecipe(rs[i])],
   categories |-> [i \in 1..Len(cs) |-> JsonCategory(cs[i])],
   knowledge |-> DEFAULT_KNOWLEDGE, resources |-> res]

\* lines 222-225: what the four persistence effects leave in localStorage
\* once the collections are rs, cs, ks and res
Stored(rs, cs, ks, res) ==
  [recipes |-> [i \in 1..Len(rs) |-> JsonRecipe(rs[i])],
   categories |-> [i \in 1..Len(cs) |-> JsonCategory(cs[i])],
   knowledge |-> ks, resources |-> res]

\* lines 183-186: the collections read back from localStorage
LoadedRecipes ==
  [i \in 1..Len(storage.recipes) |-> ParseJsonRecipe(storage.recipes[i])]
LoadedCategories ==
  [i \in 1..Len(storage.categories) |-> ParseJsonCategory(storage.categories[i])]
LoadedKnowledge == storage.knowledge
LoadedResources == storage.resources

----------------------------------------------------------------------------
(* Operations of the recipe box *)

FormShown == view \in {"CREATE", "EDIT"}

\* lines 486-488: a card of the list view
SelectRecipeCard(i) ==
  /\ view = "LIST"
  /\ i \in filteredRecipes
  /\ selectedRecipe' = recipes[i]
  /\ view' = "DETAIL"
  /\ UNCHANGED <<recipes, formRecipe, searchQuery, activeCategory, categories, knowledge,
                 resources, storage, now, reader, alerted, exported, scalingVars, sectionVars,
                     imageVars>>

\* line 471: the search box of the list view
SetSearchQuery(value) ==
  /\ view = "LIST"
  /\ searchQuery' = value
  /\ UNCHANGED <<recipes, view, selectedRecipe, formRecipe, activeCategory,
                 categories, knowledge, resources, storage, now, reader, alerted, exported, scalingVars,
                 sectionVars, imageVars>>

\* lines 475-477: a category filter button, cat being ALL or the name of
\* a category
SetActiveCategory(cat) ==
  /\ view = "LIST"
  /\ cat = ALL \/ \E i \in 1..Len(categories) : categories[i].name = cat
  /\ activeCategory' = cat
  /\ UNCHANGED <<recipes, view, selectedRecipe, formRecipe, searchQuery,
                 categories, knowledge, resources, storage, now, reader, alerted, exported, scalingVars,
                 sectionVars, imageVars>>

\* lines 781, 919, 921, 922: the back arrow and the navigation bar
SetView(v) ==
  /\ view' = v
  /\ UNCHANGED <<recipes, selectedRecipe, formRecipe, searchQuery, activeCategory,
                 categories, knowledge, resources, storage, now, reader, alerted, exported, scalingVars, sectionVars,
                     imageVars>>

\* lines 344-354
handleCreateNew ==
  /\ formRecipe' = AppRecipe(NoId, <<>>,
                             IF Len(categories) > 0 THEN categories[1].name ELSE BREAD,
                             One, DEFAULT_SECTIONS_ORDER, <<>>)
  /\ view' = "CREATE"
  /\ UNCHANGED <<recipes, selectedRecipe, searchQuery, activeCategory, categories,
                 knowledge, resources, storage, now, reader, alerted, exported, scalingVars, sectionVars,
                     imageVars>>

\* lines 650, 662: the quantity box of the form, a number input whose value
\* is a numeral or, once cleared, the empty text that Number() turns into 0
SetFormQuantity(value) ==
  /\ FormShown
  /\ formRecipe' = [formRecipe EXCEPT
                      !.quantity = IF value = <<>> THEN Zero ELSE ParseFloat(value)]
  /\ UNCHANGED <<recipes, view, selectedRecipe, searchQuery, activeCategory, categories,
                 knowledge, resources, storage, now, reader, alerted, exported,
                 scalingVars, sectionVars, imageVars>>

\* line 641
SetFormTitle(value) ==
  /\ FormShown
  /\ formRecipe' = [formRecipe EXCEPT !.title = value]
  /\ UNCHANGED <<recipes, view, selectedRecipe, searchQuery, activeCategory, categories,
                 knowledge, resources, storage, now, reader, alerted, exported, scalingVars, sectionVars,
                     imageVars>>

\* lines 335-342, called by the arrows of a rendered section (lines 156-157,
\* 711-718); index counts from 0
moveSection(index, direction) ==
  LET order == formRecipe.sectionsOrder
      Swap(a, b) == [order EXCEPT ![a] = order[b], ![b] = order[a]]
  IN  /\ FormShown
      /\ index \in 0..(Len(order) - 1)
      /\ order[index + 1] \in { DEFAULT_SECTIONS_ORDER[k] : k \in 1..5 }
      /\ formRecipe' =
           [formRecipe EXCEPT !.sectionsOrder =
              IF direction = "up" /\ index > 0 THEN Swap(index + 1, index)
              ELSE IF direction = "down" /\ index < Len(order) - 1
                   THEN Swap(index + 1, index + 2)
                   ELSE order]
      /\ UNCHANGED <<recipes, view, selectedRecipe, searchQuery, activeCategory,
                     categories, knowledge, resources, storage, now, reader, alerted, exported,
                     scalingVars, sectionVars,
                     imageVars>>

\* the save button with the new recipe keeping the id of the form
SaveRecipeKeepsFormId ==
  LET created == formRecipe
      newRecipes ==
        IF view = "CREATE" THEN <<created>> \o recipes
        ELSE [i \in 1..Len(recipes) |->
               IF recipes[i].id = formRecipe.id THEN formRecipe ELSE recipes[i]]
  IN  /\ FormShown
      /\ formRecipe.title # <<>>
      /\ view = "CREATE" => now < MaxClock
      /\ recipes' = newRecipes
      /\ storage' = Stored(newRecipes, categories, knowledge, resources)
      /\ now' = IF view = "CREATE" THEN now + 1 ELSE now
      /\ view' = "LIST"
      /\ UNCHANGED <<selectedRecipe, formRecipe, searchQuery, activeCategory, categories,
                     knowledge, resources, reader, alerted, exported, scalingVars, sectionVars,
                     imageVars>>

\* line 735: the save button of the form; 'rec-' + Date.now() is new because
\* the clock has advanced since the last handler that read it
SaveRecipe ==
  LET created == [formRecipe EXCEPT !.id = TimeId("rec-", now)]
      newRecipes ==
        IF view = "CREATE" THEN <<created>> \o recipes
        ELSE [i \in 1..Len(recipes) |->
               IF recipes[i].id = formRecipe.id THEN formRecipe ELSE recipes[i]]
  IN  /\ FormShown
      /\ formRecipe.title # <<>>
      /\ view = "CREATE" => now < MaxClock
      /\ recipes' = newRecipes
      /\ storage' = Stored(newRecipes, categories, knowledge, resources)
      /\ now' = IF view = "CREATE" THEN now + 1 ELSE now
      /\ view' = "LIST"
      /\ UNCHANGED <<selectedRecipe, formRecipe, searchQuery, activeCategory, categories,
                     knowledge, resources, reader, alerted, exported, scalingVars, sectionVars,
                     imageVars>>

\* line 907: the edit button of the detail view
EditRecipe ==
  /\ view = "DETAIL"
  /\ selectedRecipe # NoRecipe
  /\ formRecipe' = selectedRecipe
  /\ view' = "EDIT"
  /\ UNCHANGED <<recipes, selectedRecipe, searchQuery, activeCategory, categories,
                 knowledge, resources, storage, now, reader, alerted, exported, scalingVars, sectionVars,
                     imageVars>>

\* line 636: the category management button of the form
OpenManageCategories ==
  /\ FormShown
  /\ view' = "MANAGE_CATEGORIES"
  /\ UNCHANGED <<recipes, selectedRecipe, formRecipe, searchQuery, activeCategory,
                 categories, knowledge, resources, storage, now, reader, alerted, exported, scalingVars, sectionVars,
                     imageVars>>

\* line 759: the return button of the category management view
ReturnFromManageCategories ==
  /\ view = "MANAGE_CATEGORIES"
  /\ view' = "CREATE"
  /\ UNCHANGED <<recipes, selectedRecipe, formRecipe, searchQuery, activeCategory,
                 categories, knowledge, resources, storage, now, reader, alerted, exported, scalingVars, sectionVars,
                     imageVars>>

\* the new log put after the earlier ones
handleAddLogAtEnd(feedback) ==
  LET log == [id |-> TimeId("log-", now), feedback |-> feedback]
      updatedRecipe ==
        [selectedRecipe EXCEPT !.executionLogs = selectedRecipe.executionLogs \o <<log>>]
      newRecipes ==
        [i \in 1..Len(recipes) |->
           IF recipes[i].id = selectedRecipe.id THEN updatedRecipe ELSE recipes[i]]
  IN  /\ view = "DETAIL"
      /\ selectedRecipe # NoRecipe
      /\ feedback # ""
      /\ now < MaxClock
      /\ recipes' = newRecipes
      /\ storage' = Stored(newRecipes, categories, knowledge, resources)
      /\ selectedRecipe' = updatedRecipe
      /\ now' = now + 1
      /\ UNCHANGED <<view, formRecipe, searchQuery, activeCategory, categories,
                     knowledge, resources, reader, alerted, exported, scalingVars, sectionVars,
                     imageVars>>

\* lines 405-422, with the feedback typed into the log form (line 889)
handleAddLog(feedback) ==
  LET log == [id |-> TimeId("log-", now), feedback |-> feedback]
      updatedRecipe ==
        [selectedRecipe EXCEPT !.executionLogs = <<log>> \o selectedRecipe.executionLogs]
      newRecipes ==
        [i \in 1..Len(recipes) |->
           IF recipes[i].id = selectedRecipe.id THEN updatedRecipe ELSE recipes[i]]
  IN  /\ view = "DETAIL"
      /\ selectedRecipe # NoRecipe
      /\ feedback # ""
      /\ now < MaxClock
      /\ recipes' = newRecipes
      /\ storage' = Stored(newRecipes, categories, knowledge, resources)
      /\ selectedRecipe' = updatedRecipe
      /\ now' = now + 1
      /\ UNCHANGED <<view, formRecipe, searchQuery, activeCategory, categories,
                     knowledge, resources, reader, alerted, exported, scalingVars, sectionVars,
                     imageVars>>

\* the delete button leaving the search box and the category filter alone
handleDeleteRecipeKeepsFilter ==
  LET updatedRecipes == SelectSeq(recipes, LAMBDA r : r.id # selectedRecipe.id)
  IN  /\ view = "DETAIL"
      /\ selectedRecipe # NoRecipe
      /\ recipes' = updatedRecipes
      /\ storage' = Stored(updatedRecipes, categories, knowledge, resources)
      /\ selectedRecipe' = NoRecipe
      /\ view' = "LIST"
      /\ UNCHANGED <<formRecipe, searchQuery, activeCategory, categories, knowledge,
                     resources, now, reader, alerted, exported, scalingVars, sectionVars, imageVars>>

\* lines 430-440
handleDeleteRecipe ==
  LET updatedRecipes == SelectSeq(recipes, LAMBDA r : r.id # selectedRecipe.id)
  IN  /\ view = "DETAIL"
      /\ selectedRecipe # NoRecipe
      /\ recipes' = updatedRecipes
      /\ storage' = Stored(updatedRecipes, categories, knowledge, resources)
      /\ selectedRecipe' = NoRecipe
      /\ searchQuery' = <<>>
      /\ activeCategory' = ALL
      /\ view' = "LIST"
      /\ UNCHANGED <<formRecipe, categories, knowledge, resources, now, reader, alerted, exported,
                     scalingVars, sectionVars,
                     imageVars>>

NoFile == [kind |-> "none"]
NoAlert == "none"
NoExport == [file |-> NoFile, recipes |-> <<>>, categories |-> <<>>, knowledge |-> <<>>,
             resources |-> <<>>]

\* lines 357-358: JSON.stringify(data) as JSON.parse reads it back: every
\* collection is there as an array and every number went through its numeral
BackupOf(rs, cs, ks, res) ==
  [kind |-> "ok",
   recipes |->
     [present |-> TRUE, array |-> TRUE,
      items |-> [i \in 1..Len(rs) |->
                  [id |-> rs[i].id, title |-> rs[i].title, category |-> rs[i].category,
                   quantity |-> ParseJsonNumber(JsonNumber(rs[i].quantity)),
                   sectionsOrder |-> [array |-> TRUE, items |-> rs[i].sectionsOrder],
                   executionLogs |-> [array |-> TRUE, items |-> rs[i].executionLogs]]]],
   categories |->
     [present |-> TRUE, array |-> TRUE,
      items |-> [i \in 1..Len(cs) |-> ParseJsonCategory(JsonCategory(cs[i]))]],
   knowledge |-> [present |-> TRUE, array |-> TRUE, items |-> ks],
   resources |-> [present |-> TRUE, array |-> TRUE, items |-> res]]

\* lines 356-365: the backup button of the list view downloads the four
\* collections as one JSON file
handleExport ==
  /\ view = "LIST"
  /\ exported' = [file |-> BackupOf(recipes, categories, knowledge, resources),
                  recipes |-> recipes, categories |-> categories,
                  knowledge |-> knowledge, resources |-> resources]
  /\ UNCHANGED <<recipes, view, selectedRecipe, formRecipe, searchQuery, activeCategory,
                 categories, knowledge, resources, storage, now, reader, alerted,
                 scalingVars, sectionVars, imageVars>>

\* lines 377-393: one entry of data.recipes with the defaults filled in; rnd
\* is the id drawn with Math.random() for a recipe without one
ProcessedRecipe(r, rnd) ==
  AppRecipe(IF r.id = NoId THEN rnd ELSE r.id, r.title, r.category,
            OrElse(r.quantity, One),
            IF r.sectionsOrder.array THEN r.sectionsOrder.items ELSE DEFAULT_SECTIONS_ORDER,
            IF r.executionLogs.array THEN r.executionLogs.items ELSE <<>>)

\* lines 367-370, 402: a backup file is chosen in the list view and read
handleImport(file) ==
  /\ view = "LIST"
  /\ reader = NoFile
  /\ reader' = file
  /\ UNCHANGED <<alerted, exported, recipes, view, selectedRecipe, formRecipe, searchQuery, activeCategory,
                 categories, knowledge, resources, storage, now, scalingVars, sectionVars,
                     imageVars>>

\* only a text that is not JSON throws
ThrowsOnParseOnly(data) ==
  data.kind = "unparseable"

\* lines 373-375: JSON.parse throws on a text that is not JSON, and
\* data.recipes.map throws on a recipes field that is not an array
Throws(data) ==
  \/ data.kind = "unparseable"
  \/ data.recipes.present /\ ~data.recipes.array

\* lines 371-401: reader.onload; whatever throws does so before any
\* collection is set, and the alert tells which way it went
ImportLoaded(rnd) ==
  LET data == reader
      newRecipes ==
        IF data.recipes.present
        THEN [i \in 1..Len(data.recipes.items) |-> ProcessedRecipe(data.recipes.items[i], rnd)]
        ELSE recipes
      newCategories == IF data.categories.present THEN data.categories.items ELSE categories
      newKnowledge == IF data.knowledge.present THEN data.knowledge.items ELSE knowledge
      newResources == IF data.resources.present THEN data.resources.items ELSE resources
  IN  /\ reader # NoFile
      /\ reader' = NoFile
      /\ IF Throws(data)
         THEN /\ alerted' = "U+532FU+5165U+5931U+6557"
              /\ UNCHANGED <<recipes, categories, knowledge, resources, storage>>
         ELSE /\ recipes' = newRecipes
              /\ categories' = newCategories
              /\ knowledge' = newKnowledge
              /\ resources' = newResources
              /\ storage' = Stored(newRecipes, newCategories, newKnowledge, newResources)
              /\ alerted' = "U+532FU+5165U+6210U+529FU+FF01"
      /\ UNCHANGED <<view, selectedRecipe, formRecipe, searchQuery, activeCategory, now,
                     exported, scalingVars, sectionVars, imageVars>>

\* line 745, with the name typed into the new category box
AddCategory(name) ==
  LET newCategories ==
        Append(categories,
               [id |-> TimeId("cat-", now), name |-> name, order |-> Len(categories)])
  IN  /\ view = "MANAGE_CATEGORIES"
      /\ name # ""
      /\ now < MaxClock
      /\ categories' = newCategories
      /\ storage' = Stored(recipes, newCategories, knowledge, resources)
      /\ now' = now + 1
      /\ UNCHANGED <<recipes, view, selectedRecipe, formRecipe, searchQuery, activeCategory,
                     knowledge, resources, reader, alerted, exported, scalingVars, sectionVars,
                     imageVars>>

\* nc.map((c, i) => ({...c, order: i})) after the entries at a and b swapped
SwappedAndRenumbered(a, b) ==
  LET nc == [categories EXCEPT ![a] = categories[b], ![b] = categories[a]]
  IN  [i \in 1..Len(nc) |-> [nc[i] EXCEPT !.order = i - 1]]

\* lines 752-753: the arrows of the category at index idx, counted from 0;
\* the up arrow is disabled at the top and the down arrow at the bottom
MoveCategory(idx, direction) ==
  LET newCategories ==
        IF direction = "up" THEN SwappedAndRenumbered(idx + 1, idx)
        ELSE SwappedAndRenumbered(idx + 1, idx + 2)
  IN  /\ view = "MANAGE_CATEGORIES"
      /\ idx \in 0..(Len(categories) - 1)
      /\ direction = "up" => idx # 0
      /\ direction = "down" => idx # Len(categories) - 1
      /\ categories' = newCategories
      /\ storage' = Stored(recipes, newCategories, knowledge, resources)
      /\ UNCHANGED <<recipes, view, selectedRecipe, formRecipe, searchQuery, activeCategory,
                     knowledge, resources, now, reader, alerted, exported, scalingVars, sectionVars,
                     imageVars>>

\* line 754
DeleteCategory(idx) ==
  LET newCategories ==
        SelectSeq(categories, LAMBDA c : c.id # categories[idx + 1].id)
  IN  /\ view = "MANAGE_CATEGORIES"
      /\ idx \in 0..(Len(categories) - 1)
      /\ categories' = newCategories
      /\ storage' = Stored(recipes, newCategories, knowledge, resources)
      /\ UNCHANGED <<recipes, view, selectedRecipe, formRecipe, searchQuery, activeCategory,
                     knowledge, resources, now, reader, alerted, exported, scalingVars, sectionVars,
                     imageVars>>

\* lines 424-428, with the title and content typed into the note form
handleAddNote(title, content) ==
  LET newKnowledge == <<[id |-> TimeId("kn-", now), title |-> title]>> \o knowledge
  IN  /\ view = "COLLECTION"
      /\ title # <<>>
      /\ content # ""
      /\ now < MaxClock
      /\ knowledge' = newKnowledge
      /\ storage' = Stored(recipes, categories, newKnowledge, resources)
      /\ now' = now + 1
      /\ UNCHANGED <<recipes, view, selectedRecipe, formRecipe, searchQuery, activeCategory,
                     categories, resources, reader, alerted, exported, scalingVars, sectionVars,
                     imageVars>>

\* line 618
RemoveNote(i) ==
  LET newKnowledge == SelectSeq(knowledge, LAMBDA k : k.id # knowledge[i].id)
  IN  /\ view = "COLLECTION"
      /\ i \in 1..Len(knowledge)
      /\ knowledge' = newKnowledge
      /\ storage' = Stored(recipes, categories, newKnowledge, resources)
      /\ UNCHANGED <<recipes, view, selectedRecipe, formRecipe, searchQuery, activeCategory,
                     categories, resources, now, reader, alerted, exported, scalingVars, sectionVars,
                     imageVars>>

\* lines 183-225: the page is loaded again: every collection is read from
\* localStorage, the rest of the state starts afresh and the effects of the
\* first render write the collections back
Reload ==
  /\ recipes' = LoadedRecipes
  /\ categories' = LoadedCategories
  /\ knowledge' = LoadedKnowledge
  /\ resources' = LoadedResources
  /\ storage' = Stored(LoadedRecipes, LoadedCategories, LoadedKnowledge, LoadedResources)
  /\ view' = "LIST"
  /\ selectedRecipe' = NoRecipe
  /\ formRecipe' = InitialForm
  /\ searchQuery' = <<>>
  /\ activeCategory' = ALL
  /\ reader' = NoFile
  /\ alerted' = NoAlert
  /\ scalingRecipeId' = ""
  /\ targetQuantity' = One
  /\ sourceMold' = InitialMold
  /\ targetMold' = InitialMold
  /\ UNCHANGED <<now, exported, sectionVars, imageVars>>

----------------------------------------------------------------------------
(* Inputs *)

\* amounts an ingredient can hold: the number 0 of a new row (line 165), a
\* number from an imported backup, and text typed into the amount field
Amounts ==
  { NumI(0), NumI(350),
    Str(<<"5", "0", "0">>), Str(<<"1", ".", "5", "5">>),
    Str(<<"-", "5">>), Str(TO_TASTE), Str(A_PINCH) }

Names == {"", "water"}

Ingredients == { Ingredient(nm, a, f) : nm \in Names, a \in Amounts, f \in BOOLEAN }

IngredientLists == UNION { [1..k -> Ingredients] : k \in 0..MaxLen }

\* scalingFactor props: the default 1, and quotients target / quantity
ScalingFactors == { One, Rat(3, 2), Rat(1, 3), Rat(-3, 2) }

\* stored quantities: missing (read as NaN), negative, 0 and positive
Quantities == { NaN } \cup { Int2Rat(k) : k \in -1..MaxQty }

\* text of the target quantity input
TargetInputs == { <<>>, <<"0">>, <<"6">>, <<"1", ".", "5">>, <<"-", "3">>, <<"0", ".", "0", "5">> }

\* text of a mold dimension input
DimInputs == { <<>>, <<"-", "1">> } \cup { NatToStr(k) : k \in 1..MaxDim }

NoIngredients == <<>>

Recipe(id, quantity, isBaking, order, main, starter, filling, decoration, custom) ==
  [id |-> id, quantity |-> quantity, isBakingRecipe |-> isBaking, sectionsOrder |-> order,
   ingredients |-> main, liquidStarterIngredients |-> starter,
   fillingIngredients |-> filling, decorationIngredients |-> decoration,
   customSectionIngredients |-> custom]

\* recipes found in storage at start-up: one of three recipes with any of the
\* quantities, followed by a second recipe
StoredRecipe(body, q) ==
  CASE body = 1 ->
         Recipe("rec-1", q, TRUE, DEFAULT_SECTIONS_ORDER,
                <<Ingredient("flour", Str(<<"4", "0", "0">>), TRUE),
                  Ingredient("water", Str(<<"2", "8", "0">>), FALSE)>>,
                NoIngredients,
                <<Ingredient("cream", Str(<<"2", "0", "0">>), FALSE),
                  Ingredient("sugar", Str(TO_TASTE), FALSE)>>,
                NoIngredients, NoIngredients)
    [] body = 2 ->
         Recipe("rec-1", q, TRUE,
                <<"ingredients", "customSectionIngredients", "liquidStarterIngredients",
                  "decorationIngredients", "fillingIngredients">>,
                <<Ingredient("sugar", Str(<<"1", "0", "0">>), FALSE),
                  Ingredient("egg", NumI(120), FALSE)>>,
                <<Ingredient("flour", Str(<<"5", "0">>), TRUE),
                  Ingredient("water", Str(<<"3", "5">>), FALSE)>>,
                NoIngredients,
                <<Ingredient("nuts", Str(A_PINCH), FALSE)>>,
                <<Ingredient("jam", NumI(30), FALSE), Ingredient("", NumI(0), FALSE)>>)
    [] OTHER ->
         Recipe("rec-1", q, FALSE, DEFAULT_SECTIONS_ORDER,
                <<Ingredient("flour", Str(<<"1", ".", "5", "5">>), TRUE),
                  Ingredient("salt", Str(<<"-", "5">>), FALSE)>>,
                NoIngredients,
                <<Ingredient("beans", Str(<<"2", "5", "0">>), FALSE),
                  Ingredient("syrup", Str(<<"1", ".", "5", "5">>), FALSE)>>,
                NoIngredients, NoIngredients)

SecondRecipe ==
  Recipe("rec-2", One, TRUE, DEFAULT_SECTIONS_ORDER,
         <<Ingredient("flour", Str(<<"1", "0", "0">>), TRUE)>>,
         NoIngredients, NoIngredients, NoIngredients, NoIngredients)

NoProps == [ingredients |-> <<>>, isBaking |-> FALSE, showPercentage |-> FALSE,
            scalingFactor |-> One]

\* text typed into the log form
Feedbacks == { "", "good" }

\* a recipe the application saved earlier, with one execution log
OldBread ==
  AppRecipe("rec-0", <<"b">>, BREAD, Int2Rat(2), DEFAULT_SECTIONS_ORDER,
            <<[id |-> "log-0", feedback |-> "ok"]>>)

Given(items) == [present |-> TRUE, array |-> TRUE, items |-> items]
Missing == [present |-> FALSE, array |-> FALSE, items |-> <<>>]
AnArray(items) == [array |-> TRUE, items |-> items]
NotAnArray == [array |-> FALSE, items |-> <<>>]

\* backup files: one that is not JSON, one whose recipes cannot be mapped,
\* an exported backup, one written by hand with fields left out, and one
\* whose recipe lists a single section
UnparseableFile ==
  [kind |-> "unparseable", recipes |-> Missing, categories |-> Missing,
   knowledge |-> Missing, resources |-> Missing]

BadRecipesFile ==
  [kind |-> "ok",
   recipes |-> [present |-> TRUE, array |-> FALSE, items |-> <<>>],
   categories |-> Given(<<[id |-> "cat-9", name |-> "U+9905U+4E7E", order |-> 0]>>),
   knowledge |-> Given(<<>>),
   resources |-> Given(<<[id |-> "res-9", title |-> <<"w">>]>>)]

ExportedFile ==
  [kind |-> "ok",
   recipes |-> Given(<<[id |-> "rec-7", title |-> <<"c">>, category |-> BREAD,
                       quantity |-> Int2Rat(3),
                       sectionsOrder |->
                         AnArray(<<"ingredients", "liquidStarterIngredients",
                                   "fillingIngredients", "decorationIngredients",
                                   "customSectionIngredients">>),
                       executionLogs |->
                         AnArray(<<[id |-> "log-9", feedback |-> "fine"]>>)]>>),
   categories |-> Given(<<[id |-> "cat-2", name |-> "U+86CBU+7CD5", order |-> 1],
                          [id |-> "cat-1", name |-> BREAD, order |-> 0]>>),
   knowledge |-> Given(<<>>),
   resources |-> Given(<<[id |-> "res-1", title |-> <<"v">>]>>)]

HandWrittenFile ==
  [kind |-> "ok",
   recipes |-> Given(<<[id |-> NoId, title |-> <<"d">>, category |-> BREAD,
                       quantity |-> NaN, sectionsOrder |-> NotAnArray,
                       executionLogs |-> NotAnArray]>>),
   categories |-> Missing, knowledge |-> Missing, resources |-> Missing]

SingleSectionFile ==
  [kind |-> "ok",
   recipes |-> Given(<<[id |-> "rec-8", title |-> <<"e">>, category |-> BREAD,
                       quantity |-> Zero,
                       sectionsOrder |-> AnArray(<<"ingredients">>),
                       executionLogs |-> AnArray(<<>>)]>>),
   categories |-> Missing, knowledge |-> Missing, resources |-> Missing]

----------------------------------------------------------------------------
(***************************************************************************)
(* The image tool (AIImageTools and geminiService)                         *)
(*                                                                         *)
(* handleGenerate and handleEdit are async: each await is a step of its    *)
(* own, and what follows an await up to the next one is one step.  A       *)
(* request records the await it stands at and what it has done so far.     *)
(***************************************************************************)

NoError == "null"
NoImage == "undefined"
\* the three messages, by their first words
KEY_MESSAGE == "U+8ACBU+9078U+64C7"           \* line 35
GENERATE_MESSAGE == "U+751FU+6210U+5716U+7247U+5931U+6557"   \* line 38
EDIT_MESSAGE == "U+7DE8U+8F2FU+5716U+7247U+5931U+6557"       \* line 56
IMAGE_URL == "data:image/png;base64"

\* String.prototype.trim, for a text of spaces and letters
RECURSIVE Trim(_)
Trim(s) ==
  IF s # <<>> /\ Head(s) = " " THEN Trim(Tail(s))
  ELSE IF s # <<>> /\ s[Len(s)] = " " THEN Trim(SubSeq(s, 1, Len(s) - 1))
  ELSE s

\* geminiService.ts lines 6-11: the answer of hasSelectedApiKey, true when
\* window.aistudio has no such function; the call may also reject
checkApiKeySelection(answer) ==
  CASE answer = "absent" -> [ok |-> TRUE, value |-> "true"]
    [] answer = "rejects" -> [ok |-> FALSE, value |-> "rejected"]
    [] OTHER -> [ok |-> TRUE, value |-> answer]

\* the catch block of the service throws every failure on as it is
generateRecipeImageThrowsOn(response) ==
  IF response.resolves /\ \E k \in 1..Len(response.text) : response.text[k] = "inlineData"
  THEN [ok |-> TRUE, value |-> IMAGE_URL]
  ELSE [ok |-> FALSE,
        value |-> IF response.resolves
                  THEN <<"No image data returned from Gemini Pro">>
                  ELSE response.text]

\* geminiService.ts lines 22-55: the data URL of the first inline image part;
\* a response without one and any other failure are thrown on, a failure
\* whose message has "Requested entity was not found" as API_KEY_ERROR
generateRecipeImage(response) ==
  LET thrown == IF response.resolves
                THEN <<"No image data returned from Gemini Pro">>
                ELSE response.text
  IN  IF response.resolves /\ \E k \in 1..Len(response.text) : response.text[k] = "inlineData"
      THEN [ok |-> TRUE, value |-> IMAGE_URL]
      ELSE IF Includes(thrown, <<"Requested entity was not found">>)
        THEN [ok |-> FALSE, value |-> <<"API_KEY_ERROR">>]
        ELSE [ok |-> FALSE, value |-> thrown]

\* geminiService.ts lines 60-92: no catch, every failure is thrown as it is
editRecipeImage(response) ==
  IF response.resolves /\ \E k \in 1..Len(response.text) : response.text[k] = "inlineData"
  THEN [ok |-> TRUE, value |-> IMAGE_URL]
  ELSE [ok |-> FALSE,
        value |-> IF response.resolves
                  THEN <<"No image data returned from Gemini Flash">>
                  ELSE response.text]

\* a call of a handler that got past its first line, standing at await at:
\* whether the key check answered true, the key dialogs opened before the
\* call to the model, the calls made to the model, the key dialogs opened in
\* the catch block, the images reported to the parent, the messages set,
\* whether the prompt was cleared and, once done, the message shown and the
\* prompt left
Request(kind, at) ==
  [kind |-> kind, at |-> at, isKeySelected |-> FALSE, dialogs |-> 0, calls |-> 0,
   dialogsAfter |-> 0, reported |-> 0, errors |-> 0,
   cleared |-> FALSE, shown |-> NoError, left |-> <<>>]

\* the call has not returned
Pending(r) == r.at # "done"

\* lines 132-135: the submit button is enabled
SubmitEnabledWhilePending == Trim(prompt) # <<>>

SubmitEnabled == ~isGenerating /\ Trim(prompt) # <<>>

\* line 91: the prompt box; it stays editable while a request is pending
SetPrompt(value) ==
  /\ prompt' = value
  /\ UNCHANGED <<isGenerating, error, mode, currentImageUrl, requests,
                 recipes, scalingVars, sectionVars, crudVars>>

\* lines 67 and 75: the two mode buttons
SetMode(m) ==
  /\ mode' = m
  /\ UNCHANGED <<prompt, isGenerating, error, currentImageUrl, requests,
                 recipes, scalingVars, sectionVars, crudVars>>

\* lines 19-24: the submit button clicked in generate mode, up to the first await
handleGenerate ==
  /\ mode = "generate"
  /\ SubmitEnabled
  /\ Trim(prompt) # <<>>
  /\ Len(requests) < MaxRequests
  /\ isGenerating' = TRUE
  /\ error' = NoError
  /\ requests' = Append(requests, Request("generate", "checkApiKeySelection"))
  /\ UNCHANGED <<prompt, mode, currentImageUrl, recipes, scalingVars, sectionVars, crudVars>>

\* lines 46-52: the submit button clicked in edit mode, up to the await
handleEdit ==
  /\ mode = "edit"
  /\ SubmitEnabled
  /\ Trim(prompt) # <<>>
  /\ currentImageUrl # NoImage
  /\ Len(requests) < MaxRequests
  /\ isGenerating' = TRUE
  /\ error' = NoError
  /\ requests' = Append(requests, Request("edit", "editRecipeImage"))
  /\ UNCHANGED <<prompt, mode, currentImageUrl, recipes, scalingVars, sectionVars, crudVars>>

\* lines 29-31 and 40-42, or 53-55 and 59-60: onImageGenerated(imageUrl),
\* setPrompt('') and the finally block, for request i of rs
Succeeds(rs, i) ==
  /\ requests' = [rs EXCEPT ![i] =
                    [@ EXCEPT !.at = "done", !.reported = @ + 1, !.cleared = TRUE,
                              !.shown = error, !.left = <<>>]]
  /\ prompt' = <<>>
  /\ isGenerating' = FALSE
  /\ UNCHANGED error

\* setError(message) without the finally block
FailsLeavesBusy(rs, i, message) ==
  /\ requests' = [rs EXCEPT ![i] =
                    [@ EXCEPT !.at = "done", !.errors = @ + 1,
                              !.shown = message, !.left = prompt]]
  /\ error' = message
  /\ UNCHANGED <<prompt, isGenerating>>

\* lines 37-42 or 56-60: setError(message) and the finally block
Fails(rs, i, message) ==
  /\ requests' = [rs EXCEPT ![i] =
                    [@ EXCEPT !.at = "done", !.errors = @ + 1,
                              !.shown = message, !.left = prompt]]
  /\ error' = message
  /\ isGenerating' = FALSE
  /\ UNCHANGED prompt

\* lines 24-27: checkApiKeySelection settles
KeySelectionChecked(i, answer) ==
  LET isKeySelected == checkApiKeySelection(answer)
  IN  /\ i \in 1..Len(requests)
      /\ requests[i].at = "checkApiKeySelection"
      /\ IF ~isKeySelected.ok THEN Fails(requests, i, GENERATE_MESSAGE)
         ELSE /\ requests' =
                   [requests EXCEPT ![i] =
                      IF isKeySelected.value = "true"
                        THEN [@ EXCEPT !.at = "generateRecipeImage", !.isKeySelected = TRUE]
                        ELSE [@ EXCEPT !.at = "openApiKeySelection", !.dialogs = @ + 1]]
              /\ UNCHANGED <<prompt, isGenerating, error>>
      /\ UNCHANGED <<mode, currentImageUrl, recipes, scalingVars, sectionVars, crudVars>>

\* line 26: the key dialog opened because no key was selected settles
KeySelectionOpened(i, resolved) ==
  /\ i \in 1..Len(requests)
  /\ requests[i].at = "openApiKeySelection"
  /\ IF ~resolved THEN Fails(requests, i, GENERATE_MESSAGE)
     ELSE /\ requests' = [requests EXCEPT ![i].at = "generateRecipeImage"]
          /\ UNCHANGED <<prompt, isGenerating, error>>
  /\ UNCHANGED <<mode, currentImageUrl, recipes, scalingVars, sectionVars, crudVars>>

\* lines 29-39: generateRecipeImage settles
ImageGenerated(i, response) ==
  LET imageUrl == generateRecipeImage(response)
      called == [requests EXCEPT ![i].calls = @ + 1]
  IN  /\ i \in 1..Len(requests)
      /\ requests[i].at = "generateRecipeImage"
      /\ IF imageUrl.ok THEN Succeeds(called, i)
         ELSE IF imageUrl.value = <<"API_KEY_ERROR">>
           THEN /\ requests' = [called EXCEPT ![i] =
                                  [@ EXCEPT !.at = "openApiKeySelection again",
                                            !.errors = @ + 1, !.dialogsAfter = @ + 1]]
                /\ error' = KEY_MESSAGE
                /\ UNCHANGED <<prompt, isGenerating>>
         ELSE Fails(called, i, GENERATE_MESSAGE)
      /\ UNCHANGED <<mode, currentImageUrl, recipes, scalingVars, sectionVars, crudVars>>

\* the key dialog of line 36 settles and the request is sent once more
KeySelectionOpenedAgainRetries(i) ==
  /\ i \in 1..Len(requests)
  /\ requests[i].at = "openApiKeySelection again"
  /\ requests' = [requests EXCEPT ![i].at = "generateRecipeImage"]
  /\ UNCHANGED <<prompt, isGenerating, error>>
  /\ UNCHANGED <<mode, currentImageUrl, recipes, scalingVars, sectionVars, crudVars>>

\* lines 36-42: the key dialog opened after API_KEY_ERROR settles, resolved or
\* rejected, and the finally block runs
KeySelectionOpenedAgain(i) ==
  /\ i \in 1..Len(requests)
  /\ requests[i].at = "openApiKeySelection again"
  /\ requests' = [requests EXCEPT ![i] =
                    [@ EXCEPT !.at = "done", !.shown = error, !.left = prompt]]
  /\ isGenerating' = FALSE
  /\ UNCHANGED <<prompt, error>>
  /\ UNCHANGED <<mode, currentImageUrl, recipes, scalingVars, sectionVars, crudVars>>

\* lines 53-60: editRecipeImage settles
ImageEdited(i, response) ==
  LET imageUrl == editRecipeImage(response)
      called == [requests EXCEPT ![i].calls = @ + 1]
  IN  /\ i \in 1..Len(requests)
      /\ requests[i].at = "editRecipeImage"
      /\ IF imageUrl.ok THEN Succeeds(called, i) ELSE Fails(called, i, EDIT_MESSAGE)
      /\ UNCHANGED <<mode, currentImageUrl, recipes, scalingVars, sectionVars, crudVars>>

\* lines 11-14: the image tool as it is mounted, for the specifications that
\* do not use it
ImageAtRest ==
  /\ prompt = <<>>
  /\ isGenerating = FALSE
  /\ error = NoError
  /\ mode = "generate"
  /\ currentImageUrl = NoImage
  /\ requests = <<>>

\* texts typed into the prompt box
Prompts == { <<>>, <<" ">>, <<"c">> }
\* how the call to the model ends: resolved with the parts of the first
\* candidate, or rejected with a message (the phrases it is made of)
Responses ==
  { [resolves |-> TRUE, text |-> <<"text", "inlineData">>],
    [resolves |-> TRUE, text |-> <<"text">>],
    [resolves |-> FALSE, text |-> <<"Requested entity was not found">>],
    [resolves |-> FALSE, text |-> <<"404 ", "Requested entity was not found", ".">>],
    [resolves |-> FALSE, text |-> <<"fetch failed">>] }

----------------------------------------------------------------------------
(* Specifications *)

\* the scaling view over stored recipes, molds set from the presets
\* the recipe box left as it starts, for the specifications that do not use it
CrudAtRest ==
  /\ view = "LIST"
  /\ selectedRecipe = NoRecipe
  /\ formRecipe = InitialForm
  /\ searchQuery = <<>>
  /\ activeCategory = ALL
  /\ categories = DEFAULT_CATEGORIES
  /\ knowledge = DEFAULT_KNOWLEDGE
  /\ resources = <<>>
  /\ storage = [recipes |-> <<>>, categories |-> <<>>, knowledge |-> <<>>, resources |-> <<>>]
  /\ now = 1
  /\ reader = NoFile
  /\ alerted = NoAlert
  /\ exported = NoExport

Init ==
  /\ \E body \in 1..3, q \in Quantities : recipes = <<StoredRecipe(body, q), SecondRecipe>>
  /\ scalingRecipeId = ""
  /\ targetQuantity = One
  /\ sourceMold = InitialMold
  /\ targetMold = InitialMold
  /\ CrudAtRest
  /\ ImageAtRest
  /\ props = NoProps
  /\ rendered = DisplayIngredientSection(<<>>, FALSE, FALSE, One)

Next ==
  \/ \E value \in {"", "rec-1", "rec-2"} : SelectScalingRecipe(value)
  \/ \E value \in TargetInputs : SetTargetQuantity(value)
  \/ \E mold \in {"source", "target"}, i \in 1..Len(MOLD_PRESETS) :
       handleApplyMoldPreset(mold, MOLD_PRESETS[i].name)
  \/ applyMoldFactor

Spec == Init /\ [][Next]_vars

\* the mold converter with freely typed dimensions
InitMold ==
  /\ recipes = <<SecondRecipe>>
  /\ scalingRecipeId = "rec-2"
  /\ targetQuantity = One
  /\ sourceMold = InitialMold
  /\ targetMold = InitialMold
  /\ CrudAtRest
  /\ ImageAtRest
  /\ props = NoProps
  /\ rendered = DisplayIngredientSection(<<>>, FALSE, FALSE, One)

NextMold ==
  \/ \E mold \in {"source", "target"}, type \in {"circular", "rectangular"} :
       SetMoldType(mold, type)
  \/ \E mold \in {"source", "target"},
        field \in {"diameter", "height", "length", "width"}, value \in DimInputs :
       SetMoldField(mold, field, value)

SpecMold == InitMold /\ [][NextMold]_vars

\* one DisplayIngredientSection instance over every ingredient list
InitSection ==
  /\ recipes = <<>>
  /\ scalingRecipeId = ""
  /\ targetQuantity = One
  /\ sourceMold = InitialMold
  /\ targetMold = InitialMold
  /\ CrudAtRest
  /\ ImageAtRest
  /\ props \in [ingredients : IngredientLists, isBaking : BOOLEAN,
                showPercentage : BOOLEAN, scalingFactor : {One}]
  /\ rendered = DisplayIngredientSection(props.ingredients, props.isBaking,
                                         props.showPercentage, props.scalingFactor)

NextSection == \E factor \in ScalingFactors : Rerender(factor)

SpecSection == InitSection /\ [][NextSection]_vars

\* the recipe box after the first render: the collections read from
\* localStorage (lines 183-186) and written back by the effects (222-225)
InitApp ==
  /\ recipes \in { <<>>, <<OldBread>> }
  /\ categories = SubSeq(DEFAULT_CATEGORIES, 1, MaxCats)
  /\ knowledge = DEFAULT_KNOWLEDGE
  /\ resources = <<>>
  /\ storage = Stored(recipes, categories, knowledge, resources)
  /\ view = "LIST"
  /\ selectedRecipe = NoRecipe
  /\ formRecipe = InitialForm
  /\ searchQuery = <<>>
  /\ activeCategory = ALL
  /\ now = 1
  /\ reader = NoFile
  /\ alerted = NoAlert
  /\ exported = NoExport
  /\ ImageAtRest
  /\ scalingRecipeId = ""
  /\ targetQuantity = One
  /\ sourceMold = InitialMold
  /\ targetMold = InitialMold
  /\ props = NoProps
  /\ rendered = DisplayIngredientSection(<<>>, FALSE, FALSE, One)

\* navigation, the form and saving
NextForm ==
  \/ \E i \in 1..Len(recipes) : SelectRecipeCard(i)
  \/ \E v \in {"LIST", "SCALING", "COLLECTION"} : SetView(v)
  \/ handleCreateNew
  \/ \E value \in {<<>>, <<"b">>} : SetFormTitle(value)
  \/ \E index \in {0, 4}, direction \in {"up", "down"} :
       moveSection(index, direction)   \* the first and the last section
  \/ SaveRecipe
  \/ EditRecipe
  \/ OpenManageCategories
  \/ ReturnFromManageCategories

\* the form, the execution logs and the delete button
NextJournal ==
  \/ NextForm
  \/ \E feedback \in Feedbacks : handleAddLog(feedback)
  \/ handleDeleteRecipe

SpecJournal == InitApp /\ [][NextJournal]_vars

\* the form and the import of a backup
NextOrder ==
  \/ NextForm
  \/ \E file \in {UnparseableFile, HandWrittenFile, SingleSectionFile} : handleImport(file)
  \/ \E rnd \in {"rec-k3x"} : ImportLoaded(rnd)   \* Math.random() of line 379

SpecOrder == InitApp /\ [][NextOrder]_vars

\* every handler that sets one of the four collections, with the navigation
\* that leads to it, and loading the page again
NextStore ==
  \/ \E i \in 1..Len(recipes) : SelectRecipeCard(i)
  \/ \E v \in {"LIST", "COLLECTION"} : SetView(v)
  \/ handleCreateNew
  \/ \E value \in {<<>>, <<"b">>} : SetFormTitle(value)
  \/ SaveRecipe
  \/ EditRecipe
  \/ \E feedback \in Feedbacks : handleAddLog(feedback)
  \/ handleDeleteRecipe
  \/ \E file \in {ExportedFile} : handleImport(file)
  \/ \E rnd \in {"rec-k3x"} : ImportLoaded(rnd)   \* Math.random() of line 379
  \/ OpenManageCategories
  \/ ReturnFromManageCategories
  \/ \E name \in {"", "scone"} : AddCategory(name)
  \/ \E idx \in 0..(Len(categories) - 1), direction \in {"up", "down"} :
       MoveCategory(idx, direction)
  \/ \E idx \in 0..(Len(categories) - 1) : DeleteCategory(idx)
  \/ \E title \in {<<>>, <<"n">>}, content \in {"", "text"} :
       handleAddNote(title, content)
  \/ \E i \in 1..Len(knowledge) : RemoveNote(i)
  \/ Reload

SpecStore == InitApp /\ [][NextStore]_vars

\* the page loaded with the first categories of the default list in storage
InitCategories ==
  /\ recipes = <<>>
  /\ categories = SubSeq(DEFAULT_CATEGORIES, 1, MaxCats + 2)
  /\ knowledge = DEFAULT_KNOWLEDGE
  /\ resources = <<>>
  /\ storage = Stored(recipes, categories, knowledge, resources)
  /\ view = "LIST"
  /\ selectedRecipe = NoRecipe
  /\ formRecipe = InitialForm
  /\ searchQuery = <<>>
  /\ activeCategory = ALL
  /\ now = 1
  /\ reader = NoFile
  /\ alerted = NoAlert
  /\ exported = NoExport
  /\ ImageAtRest
  /\ scalingRecipeId = ""
  /\ targetQuantity = One
  /\ sourceMold = InitialMold
  /\ targetMold = InitialMold
  /\ props = NoProps
  /\ rendered = DisplayIngredientSection(<<>>, FALSE, FALSE, One)

\* category management and the way to it
NextCategories ==
  \/ \E v \in {"LIST", "COLLECTION"} : SetView(v)
  \/ handleCreateNew
  \/ OpenManageCategories
  \/ ReturnFromManageCategories
  \/ \E name \in {"", "scone"} : AddCategory(name)
  \/ \E idx \in 0..(Len(categories) - 1), direction \in {"up", "down"} :
       MoveCategory(idx, direction)
  \/ \E idx \in 0..(Len(categories) - 1) : DeleteCategory(idx)

SpecCategories == InitCategories /\ [][NextCategories]_vars

\* the page loaded with three recipes in storage
InitList ==
  /\ recipes = << AppRecipe("rec-2", <<"a", "b">>, BREAD, One, DEFAULT_SECTIONS_ORDER, <<>>),
                  OldBread,
                  AppRecipe("rec-1", <<"c">>, "U+86CBU+7CD5", One, DEFAULT_SECTIONS_ORDER, <<>>) >>
  /\ categories = SubSeq(DEFAULT_CATEGORIES, 1, MaxCats)
  /\ knowledge = DEFAULT_KNOWLEDGE
  /\ resources = <<>>
  /\ storage = Stored(recipes, categories, knowledge, resources)
  /\ view = "LIST"
  /\ selectedRecipe = NoRecipe
  /\ formRecipe = InitialForm
  /\ searchQuery = <<>>
  /\ activeCategory = ALL
  /\ now = 1
  /\ reader = NoFile
  /\ alerted = NoAlert
  /\ exported = NoExport
  /\ ImageAtRest
  /\ scalingRecipeId = ""
  /\ targetQuantity = One
  /\ sourceMold = InitialMold
  /\ targetMold = InitialMold
  /\ props = NoProps
  /\ rendered = DisplayIngredientSection(<<>>, FALSE, FALSE, One)

\* the list view with its search box and category filter, the detail view
\* and the delete button
NextList ==
  \/ \E i \in 1..Len(recipes) : SelectRecipeCard(i)
  \/ \E v \in {"LIST", "COLLECTION"} : SetView(v)
  \/ \E value \in {<<>>, <<"b">>, <<"c">>} : SetSearchQuery(value)
  \/ \E cat \in {ALL, BREAD} : SetActiveCategory(cat)
  \/ handleDeleteRecipe

SpecList == InitList /\ [][NextList]_vars

\* the backup: a recipe made in the form, the export and the import
NextBackup ==
  \/ handleCreateNew
  \/ \E value \in {<<"b">>} : SetFormTitle(value)
  \/ \E value \in {<<>>, <<"3">>} : SetFormQuantity(value)
  \/ SaveRecipe
  \/ handleExport
  \/ \E file \in ({UnparseableFile, BadRecipesFile, HandWrittenFile} \cup {exported.file})
                   \ {NoFile} :
       handleImport(file)
  \/ \E rnd \in {"rec-k3x"} : ImportLoaded(rnd)   \* Math.random() of line 379

SpecBackup == InitApp /\ [][NextBackup]_vars

\* the image tool mounted by a parent with or without an image
InitImage ==
  /\ prompt = <<>>
  /\ isGenerating = FALSE
  /\ error = NoError
  /\ mode = "generate"
  /\ currentImageUrl \in { NoImage, "data:image/jpeg;base64" }
  /\ requests = <<>>
  /\ recipes = <<>>
  /\ scalingRecipeId = ""
  /\ targetQuantity = One
  /\ sourceMold = InitialMold
  /\ targetMold = InitialMold
  /\ CrudAtRest
  /\ props = NoProps
  /\ rendered = DisplayIngredientSection(<<>>, FALSE, FALSE, One)

NextImage ==
  \/ \E value \in Prompts : SetPrompt(value)
  \/ \E m \in {"generate", "edit"} : SetMode(m)
  \/ handleGenerate
  \/ handleEdit
  \/ \E i \in 1..Len(requests), answer \in {"true", "false", "absent", "rejects"} :
       KeySelectionChecked(i, answer)
  \/ \E i \in 1..Len(requests), resolved \in BOOLEAN : KeySelectionOpened(i, resolved)
  \/ \E i \in 1..Len(requests), response \in Responses : ImageGenerated(i, response)
  \/ \E i \in 1..Len(requests) : KeySelectionOpenedAgain(i)
  \/ \E i \in 1..Len(requests), response \in Responses : ImageEdited(i, response)

SpecImage == InitImage /\ [][NextImage]_vars

\* an awaited call of some request settles, resolved or rejected
AwaitSettles ==
  \/ \E i \in 1..Len(requests), answer \in {"true", "false", "absent", "rejects"} :
       KeySelectionChecked(i, answer)
  \/ \E i \in 1..Len(requests), resolved \in BOOLEAN : KeySelectionOpened(i, resolved)
  \/ \E i \in 1..Len(requests), response \in Responses : ImageGenerated(i, response)
  \/ \E i \in 1..Len(requests) : KeySelectionOpenedAgain(i)
  \/ \E i \in 1..Len(requests), response \in Responses : ImageEdited(i, response)

\* the image tool when no awaited call stays pending for ever
SpecImageLive == InitImage /\ [][NextImage]_vars /\ WF_vars(AwaitSettles)


----------------------------------------------------------------------------
(* Vocabulary of the properties *)

REq(x, y) == ~IsNaN(x) /\ ~IsNaN(y) /\ x.n * y.d = y.n * x.d
Within(x, y, tol) == RLe(RAbs(RSub(x, y)), tol)
Half1 == Rat(1, 20)

\* the amount is a number, or text that reads as a number
IsNumeric(ing) == ing.amount.t = "number" \/ ~IsNaN(ParseFloat(ing.amount.str))
IsSentinel(ing) == ing.amount = Str(TO_TASTE) \/ ing.amount = Str(A_PINCH)

\* s is a decimal numeral with at most one decimal and no trailing ".0"
Decimal1(s) ==
  LET i == IF Len(s) >= 1 /\ s[1] = "-" THEN 2 ELSE 1
      ni == DigitRun(s, i)
  IN  /\ ni >= 1
      /\ \/ i + ni - 1 = Len(s)
         \/ /\ Len(s) = i + ni + 1
            /\ s[i + ni] = "."
            /\ IsDigit(s[Len(s)])
            /\ s[Len(s)] # "0"

\* s is x rounded to one decimal place, a trailing ".0" removed
RoundedTo1(s, x) == Decimal1(s) /\ Within(ParseFloat(s), x, Half1)

\* s is x with exactly one decimal, followed by "%"
PercentOf(s, x) ==
  /\ Len(s) >= 4
  /\ s[Len(s)] = "%"
  /\ s[Len(s) - 2] = "."
  /\ IsDigit(s[Len(s) - 1])
  /\ DigitRun(s, IF s[1] = "-" THEN 2 ELSE 1) = Len(s) - 3 - (IF s[1] = "-" THEN 1 ELSE 0)
  /\ Within(ParseFloat(SubSeq(s, 1, Len(s) - 1)), x, Half1)

Rows == 1..Len(props.ingredients)
PercentShown == props.isBaking /\ props.showPercentage

FixedKeys == {"fillingIngredients", "decorationIngredients", "customSectionIngredients"}
ScalableKeys == {"ingredients", "liquidStarterIngredients"}

----------------------------------------------------------------------------
(* Properties of the scaling view (Spec) *)

\* C1: for a selected recipe with source quantity s and target quantity t,
\* the yield factor is t / s when s > 0 and exactly 1 when s <= 0 or missing
C1_YieldFactor ==
  HasScalingRecipe =>
    LET s == scalingRecipe.quantity
    IN  IF RGt(s, Zero)
        THEN REq(RMul(scalingFactor, s), targetQuantity)
        ELSE scalingFactor = One

\* every row of entry i of the result list shows its amount times f, rounded
\* to one decimal, and a row without a positive amount shows it as stored
EntryUsesFactor(i, f) ==
  LET r == scalingRecipe
      ings == SectionIngredients(r, r.sectionsOrder[i])
      out == ScalingResultList[i].section
  IN  \A j \in 1..Len(ings) :
        IF hasValidAmt(ings[j])
        THEN /\ out.items[j].amount.t = "string"
             /\ RoundedTo1(out.items[j].amount.str, RMul(numericAmt(ings[j]), f))
        ELSE out.items[j].amount = ings[j].amount

\* C2: whatever target quantity the edits and the applied mold factors have
\* left, the filling, decoration and custom sections are rendered with factor
\* 1 (their rows are those of the unscaled display), and only the main and
\* liquid-starter sections show their amounts times the scaling factor
C2_FixedSectionsUnscaled ==
  HasScalingRecipe =>
    \A i \in 1..Len(scalingRecipe.sectionsOrder) :
      LET r == scalingRecipe
          secKey == r.sectionsOrder[i]
      IN  /\ secKey \in FixedKeys =>
               /\ ScalingResultList[i].section =
                    DisplayIngredientSection(SectionIngredients(r, secKey),
                                             r.isBakingRecipe, FALSE, One)
               /\ EntryUsesFactor(i, One)
          /\ secKey \in ScalableKeys => EntryUsesFactor(i, scalingFactor)

\* a fixed section with a positive amount is shown while the factor is 3/2
C2_Witness ==
  /\ HasScalingRecipe
  /\ scalingFactor = Rat(3, 2)
  /\ \E i \in 1..Len(scalingRecipe.sectionsOrder) :
       /\ scalingRecipe.sectionsOrder[i] = "fillingIngredients"
       /\ ScalingResultList[i].section.rendered
       /\ ScalingResultList[i].section.items[1].amount = Str(<<"2", "0", "0">>)

----------------------------------------------------------------------------
(* Properties of the ingredient section display (SpecSection) *)

\* the number an amount stands for, 0 when it is not numeric
AmountValue(ing) ==
  IF ing.amount.t = "number" THEN ing.amount.num
  ELSE IF IsNaN(ParseFloat(ing.amount.str)) THEN Zero ELSE ParseFloat(ing.amount.str)

ShownAmount(j) == DisplayText(rendered.items[j].amount)

\* C3 as stated: every numeric amount a is displayed as a * f rounded to one
\* decimal place, a trailing ".0" removed
C3_EveryNumericAmountScaled ==
  \A j \in Rows :
    IsNumeric(props.ingredients[j]) =>
      RoundedTo1(ShownAmount(j), RMul(AmountValue(props.ingredients[j]), props.scalingFactor))

\* C3 amended: every numeric amount a > 0 is displayed as a * f rounded to one
\* decimal place, a trailing ".0" removed; a numeric amount that is zero or
\* negative is displayed as stored, not multiplied
C3_PositiveAmountScaled ==
  \A j \in Rows :
    LET ing == props.ingredients[j]
    IN  IsNumeric(ing) =>
          IF RGt(AmountValue(ing), Zero)
          THEN RoundedTo1(ShownAmount(j), RMul(AmountValue(ing), props.scalingFactor))
          ELSE rendered.items[j].amount = ing.amount

\* 500 at factor 3/2 reads "750", and 1.55 at factor 3/2 reads "2.3"
C3_Witness ==
  /\ props.scalingFactor = Rat(3, 2)
  /\ Len(props.ingredients) = 2
  /\ props.ingredients[1].amount = Str(<<"5", "0", "0">>)
  /\ ShownAmount(1) = <<"7", "5", "0">>
  /\ props.ingredients[2].amount = Str(<<"1", ".", "5", "5">>)
  /\ ShownAmount(2) = <<"2", ".", "3">>

\* C4: a sentinel amount is displayed unchanged and without its unit, at
\* every scaling factor
C4_SentinelPassesThrough ==
  \A j \in Rows :
    IsSentinel(props.ingredients[j]) =>
      /\ rendered.items[j].amount = props.ingredients[j].amount
      /\ rendered.items[j].unit = ""
      /\ props.ingredients[j].unit # ""

\* both sentinels are displayed at a factor other than 1
C4_Witness ==
  /\ props.scalingFactor = Rat(1, 3)
  /\ Len(props.ingredients) = 2
  /\ props.ingredients[1].amount = Str(TO_TASTE)
  /\ props.ingredients[2].amount = Str(A_PINCH)
  /\ rendered.rendered

\* sum of the amounts of the flour-flagged ingredients among the first k
RECURSIVE FlourSum(_, _)
FlourSum(ings, k) ==
  IF k = 0 THEN Zero
  ELSE IF ings[k].isFlour THEN RAdd(FlourSum(ings, k - 1), AmountValue(ings[k]))
       ELSE FlourSum(ings, k - 1)

\* the greatest amount of a non-empty list
Heaviest(ings) ==
  LET S == { AmountValue(ings[i]) : i \in 1..Len(ings) }
  IN  CHOOSE x \in S : \A y \in S : RLe(y, x)

HasPositive(ings) == \E i \in 1..Len(ings) : RGt(AmountValue(ings[i]), Zero)

\* the base of the list is value, labelled as Label maps the heaviest
\* ingredient's name
BaseIs(ings, Label(_)) ==
  LET base == localBase(ings)
      fs == FlourSum(ings, Len(ings))
  IN  IF RGt(fs, Zero)
      THEN base.weight = fs /\ base.name = TOTAL_FLOUR
      ELSE IF HasPositive(ings)
           THEN /\ base.weight = Heaviest(ings)
                /\ \E i \in 1..Len(ings) :
                     /\ AmountValue(ings[i]) = Heaviest(ings)
                     /\ base.name = Label(ings[i].name)
           ELSE base.weight = One

SameName(nm) == nm
NameOrDefault(nm) == IF nm = "" THEN MAIN_INGREDIENT ELSE nm

\* C5 as stated: the base is the flour sum (labelled total flour) when that
\* sum is > 0, otherwise the heaviest amount labelled with that ingredient's
\* name, and 1 when no amount is positive
C5_BaseLabelledByName == BaseIs(props.ingredients, SameName)

\* C5 amended: as stated, except that a heaviest ingredient whose name is
\* empty is labelled with the default main-ingredient label
C5_BaseLabelledByNameOrDefault == BaseIs(props.ingredients, NameOrDefault)

\* no flour: the base is the heavier of two named amounts
C5_Witness ==
  /\ props.scalingFactor = Rat(3, 2)
  /\ Len(props.ingredients) = 2
  /\ props.ingredients[1] = Ingredient("water", NumI(350), FALSE)
  /\ props.ingredients[2] = Ingredient("water", Str(<<"5", "0", "0">>), FALSE)
  /\ PercentShown
  /\ rendered.baseLabel = "water"
  /\ localBase(props.ingredients).weight = Int2Rat(500)

\* C6: the section base is > 0 for every ingredient list, and a percentage
\* that is shown is a number
C6_BasePositive ==
  /\ RGt(localBase(props.ingredients).weight, Zero)
  /\ \A j \in Rows :
       LET pct == rendered.items[j].percent
       IN  pct # <<>> =>
             /\ pct[Len(pct)] = "%"
             /\ ~IsNaN(ParseFloat(SubSeq(pct, 1, Len(pct) - 1)))

\* a list with no positive amount: a negative flour amount and a sentinel
C6_Witness ==
  /\ props.scalingFactor = Rat(3, 2)
  /\ Len(props.ingredients) = 2
  /\ props.ingredients[1].amount = Str(<<"-", "5">>)
  /\ props.ingredients[1].isFlour
  /\ props.ingredients[2].amount = Str(TO_TASTE)
  /\ PercentShown
  /\ localBase(props.ingredients).weight = One

\* row j shows the percentage of its amount against the section base
ShowsPercent(j) ==
  PercentOf(rendered.items[j].percent,
            RMul(RDiv(AmountValue(props.ingredients[j]), localBase(props.ingredients).weight),
                 Int2Rat(100)))

\* C7 as stated: where percentages are shown, every numeric amount a displays
\* a / base * 100 to one decimal, and the percentage is skipped exactly when
\* the base is <= 0 or the amount is not numeric
C7_PercentOfEveryNumeric ==
  (PercentShown /\ rendered.rendered) =>
    \A j \in Rows :
      LET skip == \/ RLe(localBase(props.ingredients).weight, Zero)
                  \/ ~IsNumeric(props.ingredients[j])
      IN  /\ skip <=> rendered.items[j].percent = <<>>
          /\ ~skip => ShowsPercent(j)

\* C7 amended: where percentages are shown, every numeric amount a > 0
\* displays a / base * 100 to one decimal, and the percentage is skipped
\* exactly when the amount is not numeric, zero or negative
C7_PercentOfEveryPositive ==
  (PercentShown /\ rendered.rendered) =>
    \A j \in Rows :
      LET skip == \/ ~IsNumeric(props.ingredients[j])
                  \/ RLe(AmountValue(props.ingredients[j]), Zero)
      IN  /\ skip <=> rendered.items[j].percent = <<>>
          /\ ~skip => ShowsPercent(j)

\* flour 500 and water 350 against the flour base 500: 100.0% and 70.0%
C7_Witness ==
  /\ props.scalingFactor = Rat(3, 2)
  /\ PercentShown
  /\ Len(props.ingredients) = 2
  /\ props.ingredients[1].amount = Str(<<"5", "0", "0">>)
  /\ props.ingredients[1].isFlour
  /\ props.ingredients[2] = Ingredient("water", NumI(350), FALSE)
  /\ rendered.baseLabel = TOTAL_FLOUR
  /\ rendered.items[1].percent = <<"1", "0", "0", ".", "0", "%">>
  /\ rendered.items[2].percent = <<"7", "0", ".", "0", "%">>

----------------------------------------------------------------------------
(* Scaling end to end (Spec) *)

\* row j of entry i, and the same row of the unscaled display
ResultRow(i, j) == ScalingResultList[i].section.items[j]
PlainRow(i, j) ==
  LET r == scalingRecipe
  IN  DisplayIngredientSection(SectionIngredients(r, r.sectionsOrder[i]),
                               r.isBakingRecipe, TRUE, One).items[j]

\* the rows of the scalable sections satisfy P(ingredient, entry, row)
ScalableRows(P(_, _, _)) ==
  (HasScalingRecipe /\ RGt(scalingRecipe.quantity, Zero)) =>
    \A i \in 1..Len(scalingRecipe.sectionsOrder) :
      LET r == scalingRecipe
          ings == SectionIngredients(r, r.sectionsOrder[i])
      IN  r.sectionsOrder[i] \in ScalableKeys =>
            \A j \in 1..Len(ings) : P(ings[j], i, j)

YieldRatio == RDiv(targetQuantity, scalingRecipe.quantity)

EveryNumericTimesRatio(ing, i, j) ==
  /\ IsNumeric(ing) =>
       RoundedTo1(DisplayText(ResultRow(i, j).amount), RMul(AmountValue(ing), YieldRatio))
  /\ ResultRow(i, j).percent = PlainRow(i, j).percent

EveryPositiveTimesRatio(ing, i, j) ==
  /\ IsNumeric(ing) =>
       IF RGt(AmountValue(ing), Zero)
       THEN RoundedTo1(DisplayText(ResultRow(i, j).amount), RMul(AmountValue(ing), YieldRatio))
       ELSE ResultRow(i, j).amount = ing.amount
  /\ ResultRow(i, j).percent = PlainRow(i, j).percent

\* C8 as stated: scaling from yield s > 0 to t shows every numeric amount of
\* the scalable sections times t / s, and every percentage as before scaling
C8_ScalingKeepsPercentages == ScalableRows(EveryNumericTimesRatio)

\* C8 amended: scaling from yield s > 0 to t shows every numeric amount > 0
\* of the scalable sections times t / s (to one decimal), a zero or negative
\* amount as stored, and every percentage as before scaling
C8_PositiveScalingKeepsPercentages == ScalableRows(EveryPositiveTimesRatio)

\* yield 4 to 6: flour 400 reads 600 at 100.0%, water 280 reads 420 at 70.0%
C8_Witness ==
  /\ HasScalingRecipe
  /\ scalingRecipe.quantity = Int2Rat(4)
  /\ targetQuantity = Int2Rat(6)
  /\ scalingFactor = Rat(3, 2)
  /\ \E i \in 1..Len(scalingRecipe.sectionsOrder) :
       /\ scalingRecipe.sectionsOrder[i] = "ingredients"
       /\ scalingRecipe.ingredients[1].amount = Str(<<"4", "0", "0">>)
       /\ ResultRow(i, 1).amount = Str(<<"6", "0", "0">>)
       /\ ResultRow(i, 1).percent = <<"1", "0", "0", ".", "0", "%">>
       /\ scalingRecipe.ingredients[2].amount = Str(<<"2", "8", "0">>)
       /\ ResultRow(i, 2).amount = Str(<<"4", "2", "0">>)
       /\ ResultRow(i, 2).percent = <<"7", "0", ".", "0", "%">>

----------------------------------------------------------------------------
(* Properties of the mold converter (SpecMold) *)

\* C9: the mold factor is target volume / source volume, and exactly 1 when
\* either volume is <= 0
C9_MoldFactor ==
  LET vSource == getVolume(sourceMold)
      vTarget == getVolume(targetMold)
  IN  IF RGt(vSource, Zero) /\ RGt(vTarget, Zero)
      THEN REq(RMul(calculatedMoldFactor, vSource), vTarget)
      ELSE calculatedMoldFactor = One

\* a positive source volume against a negative target volume
C9_Witness ==
  /\ RGt(getVolume(sourceMold), Zero)
  /\ RLt(getVolume(targetMold), Zero)
  /\ targetMold.type = "rectangular"
  /\ calculatedMoldFactor = One

\* area of the base of a mold
BaseArea(mold) ==
  IF mold.type = "circular"
  THEN RMul(PI, RMul(RMul(mold.diameter, mold.diameter), Rat(1, 4)))
  ELSE RMul(mold.length, mold.width)

HeightOrOne(mold) == IF mold.height = Zero THEN One ELSE mold.height

\* C10: the volume is pi * (diameter / 2)^2 * height for a circular mold and
\* length * width * height for a rectangular one, a height of 0 counting as
\* 1; with both heights 0 and positive base areas the mold factor is the
\* ratio of the base areas
C10_VolumeAndAreaRatio ==
  /\ \A mold \in {sourceMold, targetMold} :
       REq(getVolume(mold), RMul(BaseArea(mold), HeightOrOne(mold)))
  /\ ( /\ sourceMold.height = Zero
       /\ targetMold.height = Zero
       /\ RGt(BaseArea(sourceMold), Zero)
       /\ RGt(BaseArea(targetMold), Zero) ) =>
       REq(RMul(calculatedMoldFactor, BaseArea(sourceMold)), BaseArea(targetMold))

\* a circular mold of diameter 1 against a 1 x 1 rectangular one, no heights
C10_Witness ==
  /\ sourceMold.type = "circular"
  /\ sourceMold.diameter = One
  /\ sourceMold.height = Zero
  /\ targetMold.type = "rectangular"
  /\ targetMold.length = One
  /\ targetMold.width = One
  /\ targetMold.height = Zero
  /\ calculatedMoldFactor = Rat(4 * 113, 355)

----------------------------------------------------------------------------
(* C11: scale invariance of the mold factor *)

\* the positive factors k of a change of unit
UnitChanges == { Rat(a, b) : a \in 1..MaxScale, b \in 1..MaxScale }

\* the mold with every dimension multiplied by k
ScaleMold(mold, k) ==
  [type |-> mold.type,
   diameter |-> RMul(k, mold.diameter), height |-> RMul(k, mold.height),
   length |-> RMul(k, mold.length), width |-> RMul(k, mold.width)]

HeightSet(mold) == mold.height # Zero

ScaledFactorIsFactor(k) ==
  /\ REq(calculatedMoldFactor, calculatedMoldFactorOf(sourceMold, targetMold))
  /\ REq(calculatedMoldFactorOf(ScaleMold(sourceMold, k), ScaleMold(targetMold, k)),
         calculatedMoldFactor)

\* C11 as stated: multiplying every dimension of both molds by k > 0 leaves
\* the mold factor unchanged, for every pair of molds
C11_ScaleInvariant == \A k \in UnitChanges : ScaledFactorIsFactor(k)

\* C11: multiplying every dimension of both molds by k > 0 leaves the mold
\* factor unchanged when the two heights are both set or both unset
C11_ScaleInvariantAlikeHeights ==
  (HeightSet(sourceMold) <=> HeightSet(targetMold)) =>
    \A k \in UnitChanges : ScaledFactorIsFactor(k)

\* a circular mold against a rectangular one, both heights set, whose factor
\* is not 1 and survives a change of unit
C11_Witness ==
  /\ sourceMold.type = "circular"
  /\ targetMold.type = "rectangular"
  /\ HeightSet(sourceMold)
  /\ HeightSet(targetMold)
  /\ RGt(calculatedMoldFactor, One)
  /\ \E k \in UnitChanges :
       /\ k # One
       /\ REq(calculatedMoldFactorOf(ScaleMold(sourceMold, k), ScaleMold(targetMold, k)),
              calculatedMoldFactor)

----------------------------------------------------------------------------
(* C12: applying the mold factor *)

\* the factor the scalable sections are rendered with once the target
\* quantity is t, the selected recipe staying the same
FactorAtTarget(t) ==
  IF ~Truthy(scalingRecipe.quantity) THEN One ELSE RDiv(t, scalingRecipe.quantity)

Cent == Rat(1, 100)
IsWholeCents(x) == ~IsNaN(x) /\ (x.n * 100) % x.d = 0

\* C12 as stated: after the mold factor is applied the target quantity is
\* the recipe quantity times the mold factor and the scaling factor equals
\* the mold factor
C12_FactorIsMoldFactor ==
  [][applyMoldFactor =>
       /\ REq(targetQuantity', RMul(scalingRecipe.quantity, calculatedMoldFactor))
       /\ REq(FactorAtTarget(targetQuantity'), calculatedMoldFactor)]_vars

\* C12: after the mold factor is applied to a recipe of quantity q > 0 the
\* target quantity is q times the mold factor rounded to two decimals, so the
\* scaling factor is within 0.005 / q of the mold factor; for a recipe
\* without a quantity the target quantity is the rounded mold factor and the
\* scaling factor stays 1
C12_FactorIsRoundedMoldFactor ==
  [][applyMoldFactor =>
       LET q == scalingRecipe.quantity
       IN  /\ RGt(q, Zero) =>
                /\ IsWholeCents(targetQuantity')
                /\ Within(targetQuantity', RMul(q, calculatedMoldFactor), RMul(Cent, Rat(1, 2)))
                /\ Within(FactorAtTarget(targetQuantity'), calculatedMoldFactor,
                          RDiv(RMul(Cent, Rat(1, 2)), q))
           /\ ~Truthy(q) =>
                /\ IsWholeCents(targetQuantity')
                /\ Within(targetQuantity', calculatedMoldFactor, RMul(Cent, Rat(1, 2)))
                /\ FactorAtTarget(targetQuantity') = One]_vars

\* a recipe of positive quantity whose target quantity is the rounded, not
\* the exact, product of its quantity and a mold factor other than 1
C12_Witness ==
  /\ HasScalingRecipe
  /\ RGt(scalingRecipe.quantity, Zero)
  /\ ~REq(calculatedMoldFactor, One)
  /\ IsWholeCents(targetQuantity)
  /\ Within(targetQuantity, RMul(scalingRecipe.quantity, calculatedMoldFactor),
            RMul(Cent, Rat(1, 2)))
  /\ ~REq(targetQuantity, RMul(scalingRecipe.quantity, calculatedMoldFactor))
  /\ ~REq(scalingFactor, calculatedMoldFactor)

----------------------------------------------------------------------------
(* C13: the factor of a recipe at its own quantity *)

StoredIds == { recipes[i].id : i \in 1..Len(recipes) }
RecipeOfId(id) ==
  recipes[CHOOSE i \in 1..Len(recipes) :
            /\ recipes[i].id = id
            /\ \A j \in 1..(i - 1) : recipes[j].id # id]

HasQuantity(r) == ~IsNaN(r.quantity) /\ r.quantity # Zero

\* the quantity of the recipe, 1 when it has none
OwnQuantity(r) == IF HasQuantity(r) THEN r.quantity ELSE One

\* C13: whenever the target quantity equals the selected recipe's quantity
\* q > 0 the scaling factor is exactly 1; right after a recipe is selected
\* the target quantity is that recipe's quantity, or 1 when it has none, and
\* the scaling factor is 1
C13_FactorOneAtOwnQuantity ==
  /\ []( ( /\ HasScalingRecipe
           /\ RGt(scalingRecipe.quantity, Zero)
           /\ REq(targetQuantity, scalingRecipe.quantity) ) => scalingFactor = One )
  /\ []( ( /\ HasScalingRecipe
           /\ targetQuantity = OwnQuantity(scalingRecipe) ) => scalingFactor = One )
  /\ [][\A id \in StoredIds :
          SelectScalingRecipe(id) =>
            /\ scalingRecipeId' = id
            /\ targetQuantity' = OwnQuantity(RecipeOfId(id))]_vars

\* a recipe of quantity above 1 selected, the target quantity being its own
C13_Witness ==
  /\ HasScalingRecipe
  /\ RGt(scalingRecipe.quantity, One)
  /\ targetQuantity = scalingRecipe.quantity
  /\ scalingFactor = One

----------------------------------------------------------------------------
(* C14: the amounts of the fixed sections *)

\* row j of entry i of the result list, and the ingredient it shows
FixedEntries ==
  { i \in 1..Len(ScalingResultList) : ScalingResultList[i].key \in FixedKeys }
EntryIngredients(i) == SectionIngredients(scalingRecipe, ScalingResultList[i].key)
EntryAmount(i, j) == ScalingResultList[i].section.items[j].amount

\* the shown amount v is the stored amount of ing: the same number, or the
\* same text when the stored amount is not a number
ShowsStoredAmount(v, ing) ==
  IF IsNumeric(ing)
  THEN REq(ParseFloat(DisplayText(v)), AmountValue(ing))
  ELSE DisplayText(v) = DisplayText(ing.amount)

IsWholeTenths(x) == ~IsNaN(x) /\ (x.n * 10) % x.d = 0

\* C14 as stated: every ingredient of a fixed section is shown with its
\* stored amount, whatever the amount and the scaling factor
C14_FixedAmountsAsStored ==
  HasScalingRecipe =>
    \A i \in FixedEntries : \A j \in 1..Len(EntryIngredients(i)) :
      ShowsStoredAmount(EntryAmount(i, j), EntryIngredients(i)[j])

\* C14: every ingredient of a fixed section is shown without the scaling
\* factor: a positive numeric amount rounded to one decimal place, which is
\* the stored amount when that has at most one decimal, and any other amount
\* exactly as stored
C14_FixedAmountsRoundedOnly ==
  HasScalingRecipe =>
    \A i \in FixedEntries : \A j \in 1..Len(EntryIngredients(i)) :
      LET ing == EntryIngredients(i)[j]
          v == EntryAmount(i, j)
      IN  IF IsNumeric(ing) /\ RGt(AmountValue(ing), Zero)
          THEN /\ RoundedTo1(DisplayText(v), AmountValue(ing))
               /\ IsWholeTenths(AmountValue(ing)) => ShowsStoredAmount(v, ing)
          ELSE v = ing.amount

\* the factor is not 1 and a fixed section shows 250 as stored and the
\* stored 1.55 as 1.6
C14_Witness ==
  /\ HasScalingRecipe
  /\ ~REq(scalingFactor, One)
  /\ \E i \in FixedEntries : \E j, k \in 1..Len(EntryIngredients(i)) :
       /\ EntryIngredients(i)[j].amount = Str(<<"2", "5", "0">>)
       /\ DisplayText(EntryAmount(i, j)) = <<"2", "5", "0">>
       /\ EntryIngredients(i)[k].amount = Str(<<"1", ".", "5", "5">>)
       /\ DisplayText(EntryAmount(i, k)) = <<"1", ".", "6">>

----------------------------------------------------------------------------
(* Properties of the recipe box (SpecOrder, SpecJournal, SpecStore) *)

\* order lists each of the five section keys exactly once
IsPermutationOfSections(order) ==
  /\ Len(order) = 5
  /\ \A k \in 1..5 : \E i \in 1..5 : order[i] = DEFAULT_SECTIONS_ORDER[k]

\* C15: after any sequence of create-new, move-section, save, edit and
\* backup-import operations the sectionsOrder of the form and of every
\* stored recipe is a permutation of the five section keys
C15_SectionsOrderPermutation ==
  /\ IsPermutationOfSections(formRecipe.sectionsOrder)
  /\ \A i \in 1..Len(recipes) : IsPermutationOfSections(recipes[i].sectionsOrder)

----------------------------------------------------------------------------
(* C16: the execution logs *)

HasId(rs, id) == \E i \in 1..Len(rs) : rs[i].id = id
LogsOf(rs, id) == (CHOOSE r \in { rs[i] : i \in 1..Len(rs) } : r.id = id).executionLogs

\* the logs old are the last entries of the logs new, in the same order
KeepsLogs(old, new) ==
  /\ Len(new) >= Len(old)
  /\ SubSeq(new, Len(new) - Len(old) + 1, Len(new)) = old

\* C16: adding a log puts the new entry at index 0 and keeps all earlier
\* entries unmodified and in order, and no add-log, edit, save or navigation
\* step removes or changes an earlier entry of a recipe that still exists
C16_LogsAppendOnly ==
  [][ /\ \A feedback \in Feedbacks :
           handleAddLog(feedback) =>
             /\ HasId(recipes', selectedRecipe.id)
             /\ LogsOf(recipes', selectedRecipe.id) =
                  <<[id |-> TimeId("log-", now), feedback |-> feedback]>>
                    \o LogsOf(recipes, selectedRecipe.id)
             /\ selectedRecipe'.executionLogs = LogsOf(recipes', selectedRecipe.id)
      /\ \A i \in 1..Len(recipes) :
           HasId(recipes', recipes[i].id) =>
             KeepsLogs(recipes[i].executionLogs, LogsOf(recipes', recipes[i].id)) ]_vars

\* a recipe that was edited and saved holds two logs, the newer one first
C16_Witness ==
  /\ view = "LIST"
  /\ \E i \in 1..Len(recipes) :
       /\ recipes[i].id = "rec-0"
       /\ recipes[i].sectionsOrder # DEFAULT_SECTIONS_ORDER
       /\ recipes[i].executionLogs =
            <<[id |-> "log-1", feedback |-> "good"], [id |-> "log-0", feedback |-> "ok"]>>

\* C17: the categories are displayed, in the filter buttons of the list
\* (lines 475-477) and in category management (line 749), in the order of the
\* array, and that order is non-decreasing in the order field.
C17_DisplayedByOrder ==
  \A i, j \in 1..Len(categories) :
    i < j => categories[i].order <= categories[j].order

(***************************************************************************)
(* C18: persistence of the four collections                                *)
(***************************************************************************)

\* the four texts in localStorage are those of the collections in memory
StorageIsCurrent == storage = Stored(recipes, categories, knowledge, resources)

\* reading localStorage gives the collections in memory
LoadGivesCollections ==
  /\ LoadedRecipes = recipes
  /\ LoadedCategories = categories
  /\ LoadedKnowledge = knowledge
  /\ LoadedResources = resources

\* C18: once a handler has set recipes, categories, knowledge or resources the
\* text under each storage key is that of the whole collection in memory, and
\* what loading the page again reads back from storage is each collection as
\* the last mutation left it.
C18_StoredAndRestored == StorageIsCurrent /\ LoadGivesCollections

\* a note added to the collection and written to storage
C18_Witness ==
  /\ Len(knowledge) = Len(DEFAULT_KNOWLEDGE) + 1
  /\ knowledge[1].id = TimeId("kn-", 1)
  /\ storage.knowledge = knowledge
  /\ LoadedKnowledge = knowledge

(***************************************************************************)
(* C19, C20: requests of the image tool                                    *)
(***************************************************************************)

\* the request reported one image, set no message and cleared the prompt
Succeeded(r) ==
  /\ r.reported = 1
  /\ r.errors = 0
  /\ r.shown = NoError
  /\ r.cleared
  /\ r.left = <<>>

\* the request set one message, which is shown, reported no image and left
\* the prompt alone
Failed(r) ==
  /\ r.reported = 0
  /\ r.errors = 1
  /\ r.shown \in {KEY_MESSAGE, GENERATE_MESSAGE, EDIT_MESSAGE}
  /\ ~r.cleared

\* C19: a generate or edit request that has ended either reported the new
\* image to the parent once, with no error shown and the prompt cleared, or
\* shows one error message, reported no image and did not clear the prompt;
\* the call to the model is made at most once per request, and a request that
\* has not ended has reported nothing.
C19_OneOutcomeNoRetry ==
  \A i \in 1..Len(requests) :
    LET r == requests[i]
    IN  /\ r.calls <= 1
        /\ Pending(r) => (r.reported = 0 /\ ~r.cleared /\ r.errors <= 1)
        /\ ~Pending(r) => ((Succeeded(r) /\ ~Failed(r)) \/ (Failed(r) /\ ~Succeeded(r)))

\* a generate request that failed on the API key after one call and an edit
\* request that succeeded
C19_Witness ==
  /\ Len(requests) = 2
  /\ requests[1].kind = "generate"
  /\ requests[1].at = "done"
  /\ requests[1].shown = KEY_MESSAGE
  /\ requests[1].calls = 1
  /\ requests[2].kind = "edit"
  /\ requests[2].at = "done"
  /\ Succeeded(requests[2])

\* the requests that have not ended
InFlight == { i \in 1..Len(requests) : Pending(requests[i]) }

\* C20: at most one generate or edit request is pending, the flag is set
\* exactly while one is, and the submit button is disabled while it is set,
\* in either mode.
C20_OneRequestInFlight ==
  /\ Cardinality(InFlight) <= 1
  /\ isGenerating <=> InFlight # {}
  /\ isGenerating => ~SubmitEnabled

\* an edit request pending, the mode switched to generate and a prompt typed
C20_Witness ==
  /\ \E i \in InFlight : requests[i].kind = "edit"
  /\ mode = "generate"
  /\ Trim(prompt) # <<>>
  /\ Len(requests) < MaxRequests
  /\ ~SubmitEnabled

\* the request has called the image API: it awaits the answer or has had it
Sent(r) == r.at \in {"generateRecipeImage", "editRecipeImage"} \/ r.calls > 0

\* C21: a generate or edit request calls the image API only if, in that same
\* request, the key check answered that a key is selected or the key dialog
\* was opened before the call.
C21_CallsGatedByKey ==
  \A i \in 1..Len(requests) :
    Sent(requests[i]) => (requests[i].isKeySelected \/ requests[i].dialogs > 0)

(***************************************************************************)
(* C22: saving the form of a recipe being edited                           *)
(***************************************************************************)

\* the ids of the recipes rs
IdsOf(rs) == { rs[i].id : i \in 1..Len(rs) }

\* the form holds a stored recipe, put there by the edit button of the
\* detail view (handleCreateNew puts a form without id)
FormOfStoredRecipe == formRecipe.id # NoId /\ HasId(recipes, formRecipe.id)

\* C22: a save of the form of a stored recipe being edited changes neither the
\* number of recipes nor the set of their ids, also when category management
\* was opened and left before the save.
C22_EditSaveInPlace ==
  [][ (SaveRecipe /\ FormOfStoredRecipe) =>
        /\ Len(recipes') = Len(recipes)
        /\ IdsOf(recipes') = IdsOf(recipes) ]_vars

\* C23: in the detail view a recipe is selected and it is the recipe that the
\* list holds under its id.
C23_SelectedRecipeIsStored ==
  view = "DETAIL" =>
    /\ selectedRecipe # NoRecipe
    /\ HasId(recipes, selectedRecipe.id)
    /\ RecipeOfId(selectedRecipe.id) = selectedRecipe

\* C24: in the scaling view the target quantity is at least 0.1 and the
\* scaling factor is above 0.
C24_TargetAndFactorPositive ==
  /\ RLe(Rat(1, 10), targetQuantity)
  /\ RGt(scalingFactor, Zero)

(***************************************************************************)
(* C25: ids of the stored recipes                                          *)
(***************************************************************************)

\* no two recipes of rs have the same id
DistinctIds(rs) == \A i, j \in 1..Len(rs) : i # j => rs[i].id # rs[j].id

\* the places where the lists old and new, of the same length, differ
Changed(old, new) == { i \in 1..Len(old) : old[i] # new[i] }

WithoutPlace(rs, k) == SubSeq(rs, 1, k - 1) \o SubSeq(rs, k + 1, Len(rs))

\* C26: a delete takes out of the list the one recipe that has the id of the
\* selected recipe, the others staying in their order; the view becomes LIST,
\* no recipe is selected, the search text is empty and the category filter is
\* ALL; categories and knowledge stay as they are.
C26_DeleteFrame ==
  [][ handleDeleteRecipe =>
        /\ \E k \in 1..Len(recipes) :
             /\ recipes[k].id = selectedRecipe.id
             /\ recipes' = WithoutPlace(recipes, k)
        /\ \A k \in 1..Len(recipes') : recipes'[k].id # selectedRecipe.id
        /\ view' = "LIST"
        /\ selectedRecipe' = NoRecipe
        /\ searchQuery' = <<>>
        /\ activeCategory' = ALL
        /\ categories' = categories
        /\ knowledge' = knowledge ]_vars

\* the second of three recipes deleted
C26_Witness ==
  /\ Len(recipes) = 2
  /\ recipes[1].id = "rec-2"
  /\ recipes[2].id = "rec-1"
  /\ view = "LIST"
  /\ selectedRecipe = NoRecipe
  /\ searchQuery = <<>>
  /\ activeCategory = ALL

----------------------------------------------------------------------------
(***************************************************************************)
(* C27: importing a backup                                                 *)
(***************************************************************************)

IMPORT_FAILED == "U+532FU+5165U+5931U+6557"
IMPORT_SUCCEEDED == "U+532FU+5165U+6210U+529FU+FF01"

\* the file cannot be imported: it is not JSON, or its recipes are not a list
Unusable(file) ==
  \/ file.kind = "unparseable"
  \/ file.recipes.present /\ ~file.recipes.array

\* C27: when the file being read is unusable, the onload step alerts the
\* failure and leaves recipes, categories, knowledge and resources as they
\* were; otherwise it alerts the success, each collection the file holds is
\* replaced by the file's (the recipes one for one, in the file's order) and
\* each collection the file lacks stays as it was
C27_ImportFailsCleanly ==
  [][ (\E rnd \in {"rec-k3x"} : ImportLoaded(rnd)) =>
        IF Unusable(reader)
        THEN /\ alerted' = IMPORT_FAILED
             /\ recipes' = recipes
             /\ categories' = categories
             /\ knowledge' = knowledge
             /\ resources' = resources
        ELSE /\ alerted' = IMPORT_SUCCEEDED
             /\ IF reader.recipes.present
                THEN /\ Len(recipes') = Len(reader.recipes.items)
                     /\ \A i \in 1..Len(recipes') :
                          recipes'[i].title = reader.recipes.items[i].title
                ELSE recipes' = recipes
             /\ categories' = IF reader.categories.present
                              THEN reader.categories.items ELSE categories
             /\ knowledge' = IF reader.knowledge.present
                             THEN reader.knowledge.items ELSE knowledge
             /\ resources' = IF reader.resources.present
                             THEN reader.resources.items ELSE resources ]_vars

\* a file with recipes only was imported, and then an unusable one failed
C27_Witness ==
  /\ alerted = IMPORT_FAILED
  /\ reader = NoFile
  /\ Len(recipes) = 1
  /\ recipes[1].id = "rec-k3x"
  /\ categories # <<>>
  /\ categories[1].name = BREAD
  /\ resources = <<>>

----------------------------------------------------------------------------
(***************************************************************************)
(* C28: export followed by import                                          *)
(***************************************************************************)

----------------------------------------------------------------------------
(***************************************************************************)
(* C29: the busy flag                                                      *)
(***************************************************************************)

\* the awaits a request can stand at
Awaits == { "checkApiKeySelection", "openApiKeySelection", "generateRecipeImage",
            "openApiKeySelection again", "editRecipeImage" }

\* some request stands at the await named
StandsAt(at) == \E i \in 1..Len(requests) : requests[i].at = at

\* C29: a step raises isGenerating exactly when it starts a request and
\* lowers it exactly when it lets a request return, the flag is up in exactly
\* the states with a request that has not returned, and, the awaited calls
\* settling, a request standing at any of its awaits (the key dialog opened
\* after API_KEY_ERROR among them) leads to the flag being down
C29_BusyUntilSettled ==
  /\ [][ /\ (~isGenerating /\ isGenerating') <=> (Len(requests') = Len(requests) + 1)
         /\ (isGenerating /\ ~isGenerating') <=>
              (\E i \in 1..Len(requests) :
                 requests[i].at # "done" /\ requests'[i].at = "done") ]_vars
  /\ []((\E at \in Awaits : StandsAt(at)) <=> isGenerating)
  /\ \A at \in Awaits : StandsAt(at) ~> ~isGenerating

\* the key dialog opened after API_KEY_ERROR has settled and the flag is down
C29_Witness ==
  /\ requests # <<>>
  /\ requests[1].at = "done"
  /\ requests[1].dialogsAfter = 1
  /\ ~isGenerating

----------------------------------------------------------------------------
(***************************************************************************)
(* C30: the messages of a failed generate request                          *)
(***************************************************************************)

\* the call to the model is rejected with a message that has the phrase
NotFound(response) ==
  /\ ~response.resolves
  /\ \E k \in 1..Len(response.text) : response.text[k] = "Requested entity was not found"

\* the call to the model gives an image
GivesImage(response) ==
  response.resolves /\ \E k \in 1..Len(response.text) : response.text[k] = "inlineData"

\* request i leaves the handler on this step with the generic message shown
\* and no key dialog opened in answer to the failure
FailsGenerically(i) ==
  /\ requests'[i].at = "done"
  /\ error' = GENERATE_MESSAGE
  /\ requests'[i].shown = GENERATE_MESSAGE
  /\ requests'[i].dialogsAfter = 0
  /\ requests'[i].dialogs = requests[i].dialogs

\* C30: when generateRecipeImage settles rejected with a message that has
\* "Requested entity was not found", the key message is shown and one key
\* dialog is opened, and the message is still the one shown when the handler
\* returns; when it settles with any other failure, or the key check or the
\* key dialog before it rejects, the generic message is shown and no key
\* dialog is opened; a step that starts a request clears the message
C30_KeyErrorOpensKeyDialog ==
  /\ [][ \A i \in 1..Len(requests), response \in Responses :
           ImageGenerated(i, response) =>
             IF NotFound(response)
             THEN /\ error' = KEY_MESSAGE
                  /\ requests'[i].at = "openApiKeySelection again"
                  /\ requests'[i].dialogsAfter = 1
             ELSE GivesImage(response) \/ FailsGenerically(i) ]_vars
  /\ [][ \A i \in 1..Len(requests) :
           ( \/ KeySelectionChecked(i, "rejects")
             \/ KeySelectionOpened(i, FALSE) ) => FailsGenerically(i) ]_vars
  /\ [][ \A i \in 1..Len(requests) :
           KeySelectionOpenedAgain(i) =>
             /\ requests'[i].shown = KEY_MESSAGE
             /\ requests'[i].dialogsAfter = 1 ]_vars
  /\ [][ handleGenerate \/ handleEdit => error' = NoError ]_vars

\* a request that ended with the key message after one key dialog, and a
\* second one started since: the message is cleared
C30_Witness ==
  /\ Len(requests) = 2
  /\ requests[1].kind = "generate"
  /\ requests[1].shown = KEY_MESSAGE
  /\ requests[1].dialogsAfter = 1
  /\ requests[2].at # "done"
  /\ error = NoError
====
